---------------------------- MODULE Spec2Model ----------------------------
(***************************************************************************)
(* Model of the Wikipedia ETL pipeline: the six Dagster assets of          *)
(* usecase/assets.py, the domain services they call, the storage gateway   *)
(* and the command-line executor execute_job of ui/cli.py.                 *)
(*                                                                         *)
(* Strings are sequences of one-character strings, so that strip,          *)
(* contains and case folding are computed and not assumed.  A cell of a    *)
(* table is a tagged record (integer, string or null), a row is a function *)
(* from column names to cells and a table (DataFrame) is a record of its   *)
(* column list and its row list.                                           *)
(***************************************************************************)
EXTENDS Integers, Sequences, FiniteSets, TLC

(***************************************************************************)
(* Bounds of the model.                                                    *)
(***************************************************************************)
MaxRows == 3

(***************************************************************************)
(* Characters and strings.                                                 *)
(***************************************************************************)
UpperChars == <<"A","B","C","D","E","F","G","H","I","J","K","L","M",
                "N","O","P","Q","R","S","T","U","V","W","X","Y","Z">>

LowerChars == <<"a","b","c","d","e","f","g","h","i","j","k","l","m",
                "n","o","p","q","r","s","t","u","v","w","x","y","z">>

Whitespace == {" ", "\t", "\n"}

\* a text literal as the sequence of its characters
Chars(text) == [i \in 1..Len(text) |-> SubSeq(text, i, i)]

\* str.lower() of one character
LowerChar(c) ==
    IF \E i \in 1..Len(UpperChars) : UpperChars[i] = c
    THEN LowerChars[CHOOSE i \in 1..Len(UpperChars) : UpperChars[i] = c]
    ELSE c

\* str.lower()
Lower(s) == [i \in 1..Len(s) |-> LowerChar(s[i])]

\* sub in s (a literal search: the search terms hold no regex metacharacter)
Contains(s, sub) ==
    \E i \in 0..(Len(s) - Len(sub)) : SubSeq(s, i + 1, i + Len(sub)) = sub

\* s.startswith(prefix)
StartsWith(s, prefix) ==
    /\ Len(prefix) <= Len(s)
    /\ SubSeq(s, 1, Len(prefix)) = prefix

\* str.strip(): drop leading and trailing whitespace
Strip(s) ==
    LET keep == {i \in 1..Len(s) : s[i] \notin Whitespace}
    IN  IF keep = {} THEN <<>>
        ELSE LET lo == CHOOSE i \in keep : \A j \in keep : i <= j
                 hi == CHOOSE i \in keep : \A j \in keep : j <= i
             IN  SubSeq(s, lo, hi)

\* re.sub(r'\s+', ' ', s): every whitespace run becomes one space
RECURSIVE CollapseWs(_)
CollapseWs(s) ==
    IF s = <<>> THEN <<>>
    ELSE IF Head(s) \in Whitespace
         THEN IF Len(s) > 1 /\ s[2] \in Whitespace
              THEN CollapseWs(Tail(s))
              ELSE <<" ">> \o CollapseWs(Tail(s))
         ELSE <<Head(s)>> \o CollapseWs(Tail(s))

(***************************************************************************)
(* Cells, rows and tables.                                                 *)
(***************************************************************************)
IntV(n) == [t |-> "int", n |-> n, s |-> <<>>]
StrV(s) == [t |-> "str", n |-> 0, s |-> s]
BoolV(b) == [t |-> "bool", n |-> IF b THEN 1 ELSE 0, s |-> <<>>]
\* a float64 cell holding a whole number (an integer column with a missing
\* value is a float column to pandas)
FloatV(n) == [t |-> "float", n |-> n, s |-> <<>>]
\* None / NaN, as the source delivers a missing value
NoneV == [t |-> "none", n |-> 0, s |-> <<>>]
\* pd.NA
NaV == [t |-> "na", n |-> 0, s |-> <<>>]

IsNull(v) == v.t \in {"none", "na"}

\* str(value), as Series.astype(str) renders a cell
NaText == <<"<","N","A",">">>

RECURSIVE Digits(_)
Digits(n) ==
    IF n < 10 THEN <<<<"0","1","2","3","4","5","6","7","8","9">>[n + 1]>>
    ELSE Digits(n \div 10) \o Digits(n % 10)

AsStr(v) ==
    CASE v.t = "str" -> v.s
      [] v.t = "int" -> IF v.n < 0 THEN <<"-">> \o Digits(0 - v.n) ELSE Digits(v.n)
      [] v.t = "bool" -> IF v.n = 1 THEN <<"T","r","u","e">> ELSE <<"F","a","l","s","e">>
      [] v.t = "float" ->
           (IF v.n < 0 THEN <<"-">> \o Digits(0 - v.n) ELSE Digits(v.n)) \o <<".","0">>
      [] v.t = "none" -> <<"N","o","n","e">>
      [] OTHER -> NaText

DataFrame(cols, rows) == [columns |-> cols, rows |-> rows]

ColumnSet(df) == {df.columns[i] : i \in 1..Len(df.columns)}

NRows(df) == Len(df.rows)

\* df.empty: no rows or no columns
IsEmpty(df) == Len(df.rows) = 0 \/ Len(df.columns) = 0

\* df.head(n)
Head_n(df, n) ==
    DataFrame(df.columns, SubSeq(df.rows, 1, IF n < NRows(df) THEN n ELSE NRows(df)))

\* df[mask]: the rows whose index is in keep, in their order
RECURSIVE SelectRows(_, _, _)
SelectRows(rows, keep, i) ==
    IF i > Len(rows) THEN <<>>
    ELSE (IF i \in keep THEN <<rows[i]>> ELSE <<>>) \o SelectRows(rows, keep, i + 1)

\* df[column] = value: a scalar broadcast to every row, the column appended
\* to the column list when it is new
SetColumn(df, column, value) ==
    DataFrame(
        IF column \in ColumnSet(df) THEN df.columns ELSE Append(df.columns, column),
        [i \in 1..Len(df.rows) |->
            [c \in (DOMAIN df.rows[i]) \cup {column} |->
                IF c = column THEN value ELSE df.rows[i][c]]])

(***************************************************************************)
(* domain/models.py: ProcessingResult and the page schema.                 *)
(***************************************************************************)
ProcessingResult(success, message, record_count, errors) ==
    [success |-> success, message |-> message,
     record_count |-> record_count, errors |-> errors]

IsDigits(s) ==
    /\ Len(s) > 0
    /\ \A i \in 1..Len(s) : s[i] \in {"0","1","2","3","4","5","6","7","8","9"}

\* coerce = True: a pageid cell converts to int
CoercibleToInt(v) == v.t \in {"int", "bool"} \/ (v.t = "str" /\ IsDigits(v.s))

RECURSIVE ParseInt(_)
ParseInt(s) ==
    IF s = <<>> THEN 0
    ELSE 10 * ParseInt(SubSeq(s, 1, Len(s) - 1))
         + (CHOOSE d \in 0..9 : Digits(d) = <<s[Len(s)]>>)

IntOf(v) == IF v.t = "str" THEN ParseInt(v.s) ELSE v.n

SchemaColumns == <<"pageid", "title">>

\* the pageid field with gt=1 in place of ge=1
PageIdOk_GreaterThanOne(v) == CoercibleToInt(v) /\ IntOf(v) > 1

\* pageid: Series[int] = pa.Field(ge=1)
PageIdOk(v) == CoercibleToInt(v) /\ IntOf(v) >= 1

\* title: Series[str], not nullable, with the check title_not_empty
TitleOk(v) == ~IsNull(v) /\ Len(AsStr(v)) > 0

\* PageSchema.validate(df) raises no SchemaError: strict column set, and
\* every row passes both fields
SchemaValid(df) ==
    /\ ColumnSet(df) = {SchemaColumns[i] : i \in 1..Len(SchemaColumns)}
    /\ \A i \in 1..NRows(df) :
          PageIdOk(df.rows[i]["pageid"]) /\ TitleOk(df.rows[i]["title"])

\* ', '.join(names)
RECURSIVE JoinNames(_)
JoinNames(names) ==
    IF names = <<>> THEN ""
    ELSE IF Len(names) = 1 THEN names[1]
    ELSE names[1] \o ", " \o JoinNames(Tail(names))

\* the columns of the table the schema does not declare (strict = True)
UnexpectedColumns(df) ==
    LET NotDeclared(c) == \A k \in 1..Len(SchemaColumns) : SchemaColumns[k] # c
    IN  SelectSeq(df.columns, NotDeclared)

\* the columns of the schema the table lacks
MissingSchemaColumns(df) ==
    LET Lacking(c) == c \notin ColumnSet(df)
    IN  SelectSeq(SchemaColumns, Lacking)

\* the schema as a SchemaError message prints it
SchemaText ==
    "{'pageid': <Schema Column(name=pageid, type=DataType(int64))>, "
        \o "'title': <Schema Column(name=title, type=DataType(str))>}"

\* str(e) of the SchemaError PageSchema.validate(df) raises.  validate is
\* called without lazy=True, so it raises at the first violation it meets:
\* an undeclared column, then a pageid that does not coerce, then a missing
\* column, then the checks of pageid, then those of title.
SchemaErrorText(df) ==
    IF UnexpectedColumns(df) # <<>>
    THEN "column '" \o UnexpectedColumns(df)[1] \o "' not in DataFrameSchema "
             \o SchemaText
    ELSE IF /\ "pageid" \in ColumnSet(df)
            /\ \E i \in 1..NRows(df) : ~CoercibleToInt(df.rows[i]["pageid"])
    THEN "Error while coercing 'pageid' to type int64"
    ELSE IF MissingSchemaColumns(df) # <<>>
    THEN "column '" \o MissingSchemaColumns(df)[1]
             \o "' not in dataframe. Columns in dataframe: ["
             \o JoinNames(df.columns) \o "]"
    ELSE IF \E i \in 1..NRows(df) : ~PageIdOk(df.rows[i]["pageid"])
    THEN "Column 'pageid' failed element-wise validator number 0: "
             \o "greater_than_or_equal_to(1)"
    ELSE IF \E i \in 1..NRows(df) : IsNull(df.rows[i]["title"])
    THEN "non-nullable series 'title' contains null values"
    ELSE "Column 'title' failed element-wise validator number 0: "
             \o "<Check title_not_empty>"

(***************************************************************************)
(* domain/services.py                                                      *)
(***************************************************************************)
\* validate_wikipedia_pages reporting a failure without its errors=[str(e)]
validate_wikipedia_pages_NoErrors(df) ==
    IF SchemaValid(df)
    THEN ProcessingResult(TRUE, "Data validation successful", NRows(df), <<>>)
    ELSE ProcessingResult(FALSE, "Schema validation failed", NRows(df), <<>>)

\* ValidationService.validate_wikipedia_pages
validate_wikipedia_pages(df) ==
    IF SchemaValid(df)
    THEN ProcessingResult(TRUE, "Data validation successful", NRows(df), <<>>)
    ELSE \* except pa.errors.SchemaError as e: errors=[str(e)]
         ProcessingResult(FALSE, "Schema validation failed", NRows(df),
                          <<SchemaErrorText(df)>>)

\* validate_generic_data without its check for null values
validate_generic_data_NoNullCheck(df, required_columns) ==
    LET Lacking(c) == c \notin ColumnSet(df)
        missing_columns == SelectSeq(required_columns, Lacking)
    IN  IF IsEmpty(df)
        THEN ProcessingResult(FALSE, "DataFrame is empty", 0, <<"No data to validate">>)
        ELSE IF missing_columns # <<>>
        THEN ProcessingResult(FALSE, "Missing required columns", NRows(df),
                              <<"Missing columns: " \o JoinNames(missing_columns)>>)
        ELSE ProcessingResult(TRUE, "Generic validation successful", NRows(df), <<>>)

\* ValidationService.validate_generic_data
validate_generic_data(df, required_columns) ==
    LET Lacking(c) == c \notin ColumnSet(df)
        missing_columns == SelectSeq(required_columns, Lacking)
        HasNull(c) == \E i \in 1..NRows(df) : IsNull(df.rows[i][c])
        columns_with_nulls == SelectSeq(required_columns, HasNull)
    IN  IF IsEmpty(df)
        THEN ProcessingResult(FALSE, "DataFrame is empty", 0, <<"No data to validate">>)
        ELSE IF missing_columns # <<>>
        THEN ProcessingResult(FALSE, "Missing required columns", NRows(df),
                              <<"Missing columns: " \o JoinNames(missing_columns)>>)
        ELSE IF columns_with_nulls # <<>>
        THEN ProcessingResult(FALSE, "Null values found in required columns", NRows(df),
                              <<"Null values in columns: "
                                    \o JoinNames(columns_with_nulls)>>)
        ELSE ProcessingResult(TRUE, "Generic validation successful", NRows(df), <<>>)

NullSentinels == {<<>>, <<"n","a","n">>, <<"N","o","n","e">>}

\* the cell cleaned without the replacement of whitespace runs
CleanCell_NoCollapse(v) ==
    LET text == Strip(AsStr(v))
    IN  IF text \in NullSentinels THEN NaV ELSE StrV(text)

\* the three statements of clean_text_data applied to one cell
CleanCell(v) ==
    LET text == CollapseWs(Strip(AsStr(v)))
    IN  IF text \in NullSentinels THEN NaV ELSE StrV(text)

\* DataProcessingService.clean_text_data
clean_text_data(df, text_columns) ==
    DataFrame(df.columns,
        [i \in 1..NRows(df) |->
            [c \in DOMAIN df.rows[i] |->
                IF \E k \in 1..Len(text_columns) : text_columns[k] = c
                THEN CleanCell(df.rows[i][c])
                ELSE df.rows[i][c]]])

ContainsPrefix == <<"c","o","n","t","a","i","n","s",":">>
StartsWithPrefix == <<"s","t","a","r","t","s","w","i","t","h",":">>

\* str.replace(pat, ""): every occurrence of pat removed
RECURSIVE RemoveAll(_, _)
RemoveAll(s, pat) ==
    IF s = <<>> \/ pat = <<>> THEN s
    ELSE IF StartsWith(s, pat)
         THEN RemoveAll(SubSeq(s, Len(pat) + 1, Len(s)), pat)
         ELSE <<Head(s)>> \o RemoveAll(Tail(s), pat)

\* one criterion of filter_data on one cell
CriterionHolds(v, filter_value) ==
    IF filter_value.t = "str" /\ StartsWith(filter_value.s, ContainsPrefix)
    THEN \* str.contains(search_term, case=False, na=False)
         Contains(Lower(AsStr(v)), Lower(RemoveAll(filter_value.s, ContainsPrefix)))
    ELSE IF filter_value.t = "str" /\ StartsWith(filter_value.s, StartsWithPrefix)
    THEN \* str.startswith(prefix, na=False)
         StartsWith(AsStr(v), RemoveAll(filter_value.s, StartsWithPrefix))
    ELSE \* df[column] == filter_value
         ~IsNull(v) /\ v = filter_value

\* filter_data without its "if column in filtered_df.columns": a criterion
\* on a column the table lacks matches no row
filter_data_MissingColumnDropsAll(df, filters) ==
    LET keep == {i \in 1..NRows(df) :
                    \A k \in 1..Len(filters) :
                        /\ filters[k][1] \in ColumnSet(df)
                        /\ CriterionHolds(df.rows[i][filters[k][1]], filters[k][2])}
    IN  DataFrame(df.columns, SelectRows(df.rows, keep, 1))

\* filter_data keeping a row that meets any one criterion
filter_data_AnyCriterion(df, filters) ==
    LET keep == {i \in 1..NRows(df) :
                    \/ filters = <<>>
                    \/ \E k \in 1..Len(filters) :
                        filters[k][1] \in ColumnSet(df)
                            => CriterionHolds(df.rows[i][filters[k][1]], filters[k][2])}
    IN  DataFrame(df.columns, SelectRows(df.rows, keep, 1))

\* DataProcessingService.filter_data; filters is the dict as a sequence of
\* <<column, filter_value>> items
filter_data(df, filters) ==
    LET keep == {i \in 1..NRows(df) :
                    \A k \in 1..Len(filters) :
                        filters[k][1] \in ColumnSet(df)
                            => CriterionHolds(df.rows[i][filters[k][1]], filters[k][2])}
    IN  DataFrame(df.columns, SelectRows(df.rows, keep, 1))

\* the key of a row under drop_duplicates(subset=...)
DedupKey(df, row, subset_columns) ==
    IF subset_columns = <<>>
    THEN row
    ELSE [k \in 1..Len(subset_columns) |-> row[subset_columns[k]]]

\* deduplicate_data with keep='last'
deduplicate_data_KeepLast(df, subset_columns) ==
    LET keep == {i \in 1..NRows(df) :
                    \A j \in (i + 1)..NRows(df) :
                        DedupKey(df, df.rows[j], subset_columns)
                            # DedupKey(df, df.rows[i], subset_columns)}
    IN  DataFrame(df.columns, SelectRows(df.rows, keep, 1))

\* DataProcessingService.deduplicate_data (subset None is <<>>)
deduplicate_data(df, subset_columns) ==
    LET keep == {i \in 1..NRows(df) :
                    \A j \in 1..(i - 1) :
                        DedupKey(df, df.rows[j], subset_columns)
                            # DedupKey(df, df.rows[i], subset_columns)}
    IN  DataFrame(df.columns, SelectRows(df.rows, keep, 1))

\* DataProcessingService.add_metadata_columns; metadata is the dict as a
\* sequence of <<column_name, value>> items
RECURSIVE add_metadata_columns(_, _)
add_metadata_columns(df, metadata) ==
    IF metadata = <<>> THEN df
    ELSE add_metadata_columns(SetColumn(df, metadata[1][1], metadata[1][2]),
                              Tail(metadata))

(***************************************************************************)
(* The file system the storage layer writes to: the directories that       *)
(* exist and the files with their content.  A path is the sequence of its  *)
(* components, relative to the working directory.                          *)
(***************************************************************************)
RECURSIVE PathText(_)
PathText(path) ==
    IF path = <<>> THEN ""
    ELSE IF Len(path) = 1 THEN path[1]
    ELSE path[1] \o "/" \o PathText(Tail(path))

Parent(path) == SubSeq(path, 1, Len(path) - 1)

\* every proper, non-empty prefix of path: what mkdir(parents=True) makes
Ancestors(path) == {SubSeq(path, 1, k) : k \in 1..(Len(path) - 1)}

DirExists(fs, dir) == dir = <<>> \/ dir \in fs.dirs

\* Path.mkdir(parents=True, exist_ok=True)
Mkdir(fs, dir) == [fs EXCEPT !.dirs = @ \cup Ancestors(dir) \cup {dir}]

\* the text of one cell in a CSV file: a missing value is the empty field
CsvCell(v) == IF IsNull(v) THEN <<>> ELSE AsStr(v)

\* the content df.to_csv(index=False) writes: the header row, then one
\* line of fields per row, in column order
CsvContent(df) ==
    [header |-> df.columns,
     lines |-> [i \in 1..NRows(df) |->
                  [k \in 1..Len(df.columns) |-> CsvCell(df.rows[i][df.columns[k]])]]]

\* df.to_csv(path, index=False).  It raises OSError when the parent
\* directory does not exist or when the write fails (io_fails); a write
\* that fails leaves the file system as it was.
to_csv(df, path, fs, io_fails) ==
    IF ~DirExists(fs, Parent(path)) \/ io_fails
    THEN [raised |-> TRUE, fs |-> fs]
    ELSE [raised |-> FALSE,
          fs |-> [fs EXCEPT !.files =
                    [q \in (DOMAIN @) \cup {path} |->
                        IF q = path THEN CsvContent(df) ELSE @[q]]]]

(***************************************************************************)
(* infrastructure/storage.py                                               *)
(***************************************************************************)
\* CsvStorageAdapter() as StorageFactory.create_adapter("csv") builds it
base_path == <<"data">>

\* CsvStorageAdapter.__init__: the base directory is created
CsvStorageAdapter_init(fs) == Mkdir(fs, base_path)

\* what the try block of save_data does when the table is not empty: the
\* result of the function, or the exception that leaves the block
save_data_try(df, destination, fs, io_fails) ==
    LET file_path == base_path \o destination
        fs1 == Mkdir(fs, Parent(file_path))
        w == to_csv(df, file_path, fs1, io_fails)
    IN  IF w.raised
        THEN [raised |-> TRUE, result |-> ProcessingResult(FALSE, "", 0, <<>>),
              fs |-> w.fs]
        ELSE [raised |-> FALSE,
              result |-> ProcessingResult(TRUE, "Data saved to " \o PathText(file_path),
                                          NRows(df), <<>>),
              fs |-> w.fs]

\* save_data without its "except Exception": the exception of the write
\* leaves the function
save_data_Uncaught(df, destination, fs, io_fails) ==
    IF IsEmpty(df)
    THEN [raised |-> FALSE,
          result |-> ProcessingResult(FALSE, "Cannot save empty DataFrame", 0,
                                      <<"DataFrame is empty">>),
          fs |-> fs]
    ELSE save_data_try(df, destination, fs, io_fails)

\* save_data without its "if df.empty": an empty table is written like any
\* other
save_data_NoEmptyCheck(df, destination, fs, io_fails) ==
    LET t == save_data_try(df, destination, fs, io_fails)
    IN  IF t.raised
        THEN [raised |-> FALSE,
              result |-> ProcessingResult(FALSE, "Failed to save CSV file",
                                          NRows(df), <<"Error: OSError">>),
              fs |-> t.fs]
        ELSE t

\* CsvStorageAdapter.save_data
save_data(df, destination, fs, io_fails) ==
    IF IsEmpty(df)
    THEN [raised |-> FALSE,
          result |-> ProcessingResult(FALSE, "Cannot save empty DataFrame", 0,
                                      <<"DataFrame is empty">>),
          fs |-> fs]
    ELSE LET t == save_data_try(df, destination, fs, io_fails)
         IN  IF t.raised
             THEN \* except Exception as e
                  [raised |-> FALSE,
                   result |-> ProcessingResult(FALSE, "Failed to save CSV file",
                                               NRows(df), <<"Error: OSError">>),
                   fs |-> t.fs]
             ELSE t

RECURSIVE JoinKeys(_)
JoinKeys(metadata) ==
    IF metadata = <<>> THEN ""
    ELSE IF Len(metadata) = 1 THEN metadata[1][1]
    ELSE metadata[1][1] \o ", " \o JoinKeys(Tail(metadata))

\* for key, value in metadata.items(): export_df[f"meta_{key}"] = value
RECURSIVE WithMetaColumns(_, _)
WithMetaColumns(df, metadata) ==
    IF metadata = <<>> THEN df
    ELSE WithMetaColumns(SetColumn(df, "meta_" \o metadata[1][1], metadata[1][2]),
                         Tail(metadata))

\* export_with_metadata with "export_df = df" in place of "df.copy()": the
\* meta_ columns are set on the caller's table
export_with_metadata_NoCopy(df, destination, metadata, fs, io_fails) ==
    LET export_df == IF metadata # <<>> THEN WithMetaColumns(df, metadata) ELSE df
        r == save_data(export_df, destination, fs, io_fails)
    IN  [raised |-> FALSE,
         result |-> IF r.result.success /\ metadata # <<>>
                    THEN [r.result EXCEPT !.message =
                            @ \o " (with metadata: " \o JoinKeys(metadata) \o ")"]
                    ELSE r.result,
         fs |-> r.fs, saved |-> export_df, save_raised |-> FALSE,
         caller_df |-> export_df]

\* DataExporter.export_with_metadata; metadata is the dict as a sequence of
\* <<key, value>> items, <<>> for None or {}.  saved is the table handed to
\* save_data, caller_df the caller's table when the call returns: the
\* columns are set on df.copy(), and with no metadata export_df is df itself,
\* which nothing assigns to.
export_with_metadata(df, destination, metadata, fs, io_fails) ==
    LET export_df == IF metadata # <<>> THEN WithMetaColumns(df, metadata) ELSE df
        r == save_data(export_df, destination, fs, io_fails)
    IN  IF r.raised
        THEN \* except Exception as e
             [raised |-> FALSE,
              result |-> ProcessingResult(FALSE, "Export failed", NRows(df),
                                          <<"Error: OSError">>),
              fs |-> r.fs, saved |-> export_df, save_raised |-> TRUE,
              caller_df |-> df]
        ELSE [raised |-> FALSE,
              result |-> IF r.result.success /\ metadata # <<>>
                         THEN [r.result EXCEPT !.message =
                                 @ \o " (with metadata: " \o JoinKeys(metadata) \o ")"]
                         ELSE r.result,
              fs |-> r.fs, saved |-> export_df, save_raised |-> FALSE,
              caller_df |-> df]

\* the values pandas.read_csv reads as a missing value (its default
\* na_values, keep_default_na left True)
CsvNaValues ==
    {Chars(x) : x \in {"", "#N/A", "#N/A N/A", "#NA", "-1.#IND", "-1.#QNAN",
                       "-NaN", "-nan", "1.#IND", "1.#QNAN", "<NA>", "N/A", "NA",
                       "NULL", "NaN", "None", "n/a", "nan", "null"}}

\* a field the parser reads as an integer
IsIntText(text) ==
    \/ IsDigits(text)
    \/ Len(text) > 1 /\ text[1] = "-" /\ IsDigits(Tail(text))

IntOfText(text) ==
    IF text[1] = "-" THEN 0 - ParseInt(Tail(text)) ELSE ParseInt(text)

\* a field the parser reads as a boolean
IsBoolText(text) ==
    text \in {Chars(x) : x \in {"True", "TRUE", "true", "False", "FALSE", "false"}}

\* pd.read_csv on the content of a file: the header gives the columns, and
\* each column takes the narrowest type its fields allow: integer (float64
\* when a field is missing), boolean, or text
read_csv(content) ==
    LET n == Len(content.lines)
        Field(i, k) == content.lines[i][k]
        Present(k) == {i \in 1..n : Field(i, k) \notin CsvNaValues}
        Cell(i, k) ==
            IF i \notin Present(k) THEN NoneV
            ELSE IF \A j \in Present(k) : IsIntText(Field(j, k))
            THEN IF Present(k) = 1..n
                 THEN IntV(IntOfText(Field(i, k)))
                 ELSE FloatV(IntOfText(Field(i, k)))
            ELSE IF \A j \in Present(k) : IsBoolText(Field(j, k))
            THEN BoolV(Lower(Field(i, k)) = Chars("true"))
            ELSE StrV(Field(i, k))
    IN  DataFrame(content.header,
            [i \in 1..n |->
                [c \in {content.header[k] : k \in 1..Len(content.header)} |->
                    Cell(i, CHOOSE k \in 1..Len(content.header) : content.header[k] = c)]])

\* CsvStorageAdapter.load_data
load_data(source, fs) ==
    LET file_path == base_path \o source
    IN  IF file_path \notin DOMAIN fs.files
        THEN [raised |-> TRUE, exc |-> "FileNotFoundError", value |-> DataFrame(<<>>, <<>>)]
        ELSE [raised |-> FALSE, exc |-> "", value |-> read_csv(fs.files[file_path])]

\* a cell as JSON writes it: a number, a string, a boolean, or null
JsonValue(v) == IF IsNull(v) THEN NoneV ELSE v

\* the content df.to_json(orient="records") writes: one object per row,
\* its members in column order
JsonContent(df) ==
    [records |-> [i \in 1..NRows(df) |->
                    [k \in 1..Len(df.columns) |->
                        <<df.columns[k], JsonValue(df.rows[i][df.columns[k]])>>]]]

\* df.to_json(path, orient="records", indent=2), with the failures of to_csv
to_json(df, path, fs, io_fails) ==
    IF ~DirExists(fs, Parent(path)) \/ io_fails
    THEN [raised |-> TRUE, fs |-> fs]
    ELSE [raised |-> FALSE,
          fs |-> [fs EXCEPT !.files =
                    [q \in (DOMAIN @) \cup {path} |->
                        IF q = path THEN JsonContent(df) ELSE @[q]]]]

\* JsonStorageAdapter.__init__
JsonStorageAdapter_init(fs) == Mkdir(fs, base_path)

\* JsonStorageAdapter.save_data
JsonStorageAdapter_save_data(df, destination, fs, io_fails) ==
    IF IsEmpty(df)
    THEN [raised |-> FALSE,
          result |-> ProcessingResult(FALSE, "Cannot save empty DataFrame", 0,
                                      <<"DataFrame is empty">>),
          fs |-> fs]
    ELSE LET file_path == base_path \o destination
             fs1 == Mkdir(fs, Parent(file_path))
             w == to_json(df, file_path, fs1, io_fails)
         IN  IF w.raised
             THEN \* except Exception as e
                  [raised |-> FALSE,
                   result |-> ProcessingResult(FALSE, "Failed to save JSON file",
                                               NRows(df), <<"Error: OSError">>),
                   fs |-> w.fs]
             ELSE [raised |-> FALSE,
                   result |-> ProcessingResult(TRUE,
                                  "Data saved to " \o PathText(file_path),
                                  NRows(df), <<>>),
                   fs |-> w.fs]

\* a JSON value float() accepts
FloatParsable(v) ==
    \/ v.t # "str"
    \/ IsIntText(v.s)
    \/ Lower(v.s) = Chars("nan")

\* pd.read_json(path, orient="records"): the members of the objects give
\* the columns; a column of dtype object is converted to float64 when every
\* value of it converts, and a float64 column to int64 when that loses
\* nothing
read_json(content) ==
    LET n == Len(content.records)
        cols == IF n = 0 THEN <<>>
                ELSE [k \in 1..Len(content.records[1]) |-> content.records[1][k][1]]
        Value(i, k) == content.records[i][k][2]
        IsObject(k) ==
            \/ \E i \in 1..n : Value(i, k).t = "str"
            \/ (\E i \in 1..n : Value(i, k).t = "bool") /\ (\E i \in 1..n : IsNull(Value(i, k)))
        IsNaN(v) == IsNull(v) \/ (v.t = "str" /\ Lower(v.s) = Chars("nan"))
        Number(v) == IF v.t = "str" THEN IntOfText(v.s) ELSE v.n
        Numeric(k) ==
            /\ \A i \in 1..n : FloatParsable(Value(i, k))
            /\ \/ IsObject(k)
               \/ \A i \in 1..n : Value(i, k).t \in {"int", "float", "none"}
        Cell(i, k) ==
            IF ~Numeric(k) THEN Value(i, k)
            ELSE IF IsNaN(Value(i, k)) THEN NoneV
            ELSE IF \E j \in 1..n : IsNaN(Value(j, k))
            THEN FloatV(Number(Value(i, k)))
            ELSE IntV(Number(Value(i, k)))
    IN  DataFrame(cols,
            [i \in 1..n |->
                [c \in {cols[k] : k \in 1..Len(cols)} |->
                    Cell(i, CHOOSE k \in 1..Len(cols) : cols[k] = c)]])

\* JsonStorageAdapter.load_data
JsonStorageAdapter_load_data(source, fs) ==
    LET file_path == base_path \o source
    IN  IF file_path \notin DOMAIN fs.files
        THEN [raised |-> TRUE, exc |-> "FileNotFoundError", value |-> DataFrame(<<>>, <<>>)]
        ELSE [raised |-> FALSE, exc |-> "", value |-> read_json(fs.files[file_path])]

(***************************************************************************)
(* infrastructure/api_clients.py                                           *)
(***************************************************************************)
ResponseKinds ==
    {"timeout", "connection_error", "http_error", "bad_json",
     "no_query", "no_allpages", "ok"}

\* pd.DataFrame(pages) followed by the required-column loop and
\* df[required_columns]: a key a page lacks is a missing value
PageRow(page) ==
    [c \in {"pageid", "title"} |-> IF c \in DOMAIN page THEN page[c] ELSE NoneV]

\* fetch_wikipedia_pages without its "if not pages": pd.DataFrame([]) has no
\* columns
fetch_wikipedia_pages_NoEmptyBranch(response) ==
    IF response.kind # "ok"
    THEN [raised |-> TRUE,
          exc |-> IF response.kind \in {"timeout", "connection_error", "http_error"}
                  THEN "RequestException" ELSE "ValueError",
          value |-> DataFrame(<<>>, <<>>)]
    ELSE [raised |-> FALSE, exc |-> "",
          value |-> DataFrame(IF response.pages = <<>> THEN <<>> ELSE <<"pageid", "title">>,
                              [i \in 1..Len(response.pages) |-> PageRow(response.pages[i])])]

\* WikipediaApiClient.fetch_wikipedia_pages on the response the source
\* gives to the one requests.get it issues
fetch_wikipedia_pages(response) ==
    IF response.kind # "ok"
    THEN [raised |-> TRUE,
          exc |-> IF response.kind \in {"timeout", "connection_error", "http_error"}
                  THEN "RequestException" ELSE "ValueError",
          value |-> DataFrame(<<>>, <<>>)]
    ELSE [raised |-> FALSE, exc |-> "",
          value |-> DataFrame(<<"pageid", "title">>,
                              [i \in 1..Len(response.pages) |-> PageRow(response.pages[i])])]

(***************************************************************************)
(* usecase/assets.py: the six stages.  Each operator gives what one run of *)
(* the stage function does: whether it raises, the value it returns and    *)
(* the output metadata it records.                                         *)
(***************************************************************************)
NoMetadata == [recorded |-> FALSE]

\* os.environ as far as the stages read it: a variable is unset (<<>>) or
\* set to one value (<<value>>)
UnsetEnvironment == [WIKI_API_URL |-> <<>>, OUTPUT_PATH |-> <<>>]

\* os.getenv(key, default)
getenv(environ, key, default) ==
    IF environ[key] = <<>> THEN default ELSE environ[key][1]

\* fetch_raw_pages; environ is os.environ as the stage function finds it;
\* response is what the source answers to the request to api_url
fetch_raw_pages(response, environ) ==
    LET api_url == getenv(environ, "WIKI_API_URL", "https://en.wikipedia.org/w/api.php")
        r == fetch_wikipedia_pages(response)
    IN  IF r.raised
        THEN [raised |-> TRUE, value |-> r.value, metadata |-> NoMetadata]
        ELSE [raised |-> FALSE, value |-> r.value,
              metadata |-> [recorded |-> TRUE, row_count |-> NRows(r.value),
                            api_url |-> api_url,
                            columns |-> r.value.columns]]

\* validate_pages
validate_pages(fetched) ==
    LET validation_result == validate_wikipedia_pages(fetched)
    IN  IF ~validation_result.success
        THEN [raised |-> TRUE, value |-> fetched, metadata |-> NoMetadata]
        ELSE [raised |-> FALSE, value |-> fetched,
              metadata |-> [recorded |-> TRUE, row_count |-> NRows(fetched),
                            validation_success |-> validation_result.success,
                            validation_message |-> validation_result.message]]

\* clean_and_process_pages; now is datetime.now()
clean_and_process_pages(validated, now) ==
    LET cleaned == clean_text_data(validated, <<"title">>)
        deduped == deduplicate_data(cleaned, <<"pageid">>)
        processed_df ==
            add_metadata_columns(deduped,
                <<  <<"processed_at", IntV(now)>>,
                    <<"source", StrV(<<"w","i","k","i","p","e","d","i","a","_","a","p","i">>)>> >>)
    IN  [raised |-> FALSE, value |-> processed_df,
         metadata |-> [recorded |-> TRUE, row_count |-> NRows(processed_df),
                       columns_added |-> <<"processed_at", "source">>,
                       duplicates_removed |-> NRows(validated) - NRows(processed_df)]]

\* str(n) as the text a message or tag embeds
RECURSIVE IntText(_)
IntText(n) ==
    IF n < 10 THEN <<"0","1","2","3","4","5","6","7","8","9">>[n + 1]
    ELSE IntText(n \div 10) \o IntText(n % 10)

\* the two filter rungs of the ladder of filter_pages_by_criteria
WikipediaFilter ==
    << <<"title", StrV(ContainsPrefix \o <<"W","i","k","i","p","e","d","i","a">>)>> >>

MainFilter ==
    << <<"title", StrV(ContainsPrefix \o <<"M","a","i","n">>)>> >>

\* half_point rounded up instead of down
half_point_RoundsUp(df) == (NRows(df) + 1) \div 2

\* half_point = len(clean_and_process_pages) // 2
half_point(df) == NRows(df) \div 2

\* the terminal rung without its "else head(1)"
Truncate_NoMinimum(df) == Head_n(df, half_point(df))

\* the terminal rung: head(half_point) if half_point > 0 else head(1)
Truncate(df) ==
    IF half_point(df) > 0 THEN Head_n(df, half_point(df)) ELSE Head_n(df, 1)

\* the ladder with the second filter applied whether or not the first matched
Ladder_AlwaysBroadens(df) ==
    LET s1 == [df |-> filter_data(df, MainFilter),
               filter_criteria |-> "title contains 'Main'",
               applied |-> <<0, 1>>]
        s2 == IF NRows(s1.df) = 0
              THEN [df |-> Truncate(df),
                    filter_criteria |->
                        "first " \o IntText(half_point(df)) \o " records (fallback)",
                    applied |-> Append(s1.applied, 2)]
              ELSE s1
    IN  [df |-> s2.df, filter_criteria |-> s2.filter_criteria,
         applied |-> s2.applied, tier |-> s2.applied[Len(s2.applied)]]

\* The ladder as the three statements of filter_pages_by_criteria run it.
\* applied lists the rungs whose statement ran (0 and 1 are the two
\* filters, 2 the truncation), tier is the rung the returned rows come from.
Ladder(df) ==
    LET s0 == [df |-> filter_data(df, WikipediaFilter),
               filter_criteria |-> "title contains 'Wikipedia'",
               applied |-> <<0>>]
        s1 == IF NRows(s0.df) = 0
              THEN [df |-> filter_data(df, MainFilter),
                    filter_criteria |-> "title contains 'Main'",
                    applied |-> Append(s0.applied, 1)]
              ELSE s0
        s2 == IF NRows(s1.df) = 0
              THEN [df |-> Truncate(df),
                    filter_criteria |->
                        "first " \o IntText(half_point(df)) \o " records (fallback)",
                    applied |-> Append(s1.applied, 2)]
              ELSE s1
    IN  [df |-> s2.df, filter_criteria |-> s2.filter_criteria,
         applied |-> s2.applied, tier |-> s2.applied[Len(s2.applied)]]

\* filter_pages_by_criteria
filter_pages_by_criteria(processed) ==
    LET l == Ladder(processed)
    IN  [raised |-> FALSE, value |-> l.df,
         metadata |-> [recorded |-> TRUE, row_count |-> NRows(l.df),
                       filter_criteria |-> l.filter_criteria,
                       original_count |-> NRows(processed)],
         applied |-> l.applied, tier |-> l.tier]

\* what a store stage did with the storage gateway (io_failed: the write
\* the stage asked for could not be done)
NoExport ==
    [called |-> FALSE, io_failed |-> FALSE, save_raised |-> FALSE, raised |-> FALSE,
     result |-> ProcessingResult(FALSE, "", 0, <<>>),
     saved |-> DataFrame(<<>>, <<>>)]

ExportOf(e, io_fails) ==
    [called |-> TRUE, io_failed |-> io_fails, save_raised |-> e.save_raised,
     raised |-> e.raised,
     result |-> e.result, saved |-> e.saved]

\* a store stage raises RuntimeError exactly when the outcome it was given
\* has success = false (or the gateway itself raised)
StoreRaises(e) == e.raised \/ ~e.result.success

\* store_pages_to_csv; environ is os.environ as the stage function finds it
store_pages_to_csv(processed, now, fs, io_fails, environ) ==
    LET output_path == getenv(environ, "OUTPUT_PATH", <<"data", "pages.csv">>)
        fs1 == CsvStorageAdapter_init(fs)
        export_metadata == << <<"export_timestamp", IntV(now)>>,
                              <<"record_count", IntV(NRows(processed))>> >>
        e == export_with_metadata(processed, output_path, export_metadata, fs1, io_fails)
    IN  IF StoreRaises(e)
        THEN [raised |-> TRUE, value |-> output_path, metadata |-> NoMetadata,
              fs |-> e.fs, export |-> ExportOf(e, io_fails)]
        ELSE [raised |-> FALSE, value |-> output_path,
              metadata |-> [recorded |-> TRUE, output_path |-> output_path,
                            record_count |-> NRows(processed)],
              fs |-> e.fs, export |-> ExportOf(e, io_fails)]

PlaceholderColumns == <<"pageid", "title", "processed_at", "source">>

\* the branch of store_filtered_pages_to_csv for an empty table: the
\* headers-only file is written with to_csv directly
PlaceholderExport(output_path, fs, io_fails) ==
    LET w == to_csv(DataFrame(PlaceholderColumns, <<>>), output_path, fs, io_fails)
    IN  IF w.raised
        THEN [raised |-> TRUE, value |-> output_path, metadata |-> NoMetadata,
              fs |-> w.fs, export |-> [NoExport EXCEPT !.io_failed = TRUE]]
        ELSE [raised |-> FALSE, value |-> output_path,
              metadata |-> [recorded |-> TRUE, output_path |-> output_path,
                            record_count |-> 0, is_placeholder |-> TRUE],
              fs |-> w.fs, export |-> NoExport]

\* the metadata store_filtered_pages_to_csv asks the exporter to add
FilteredExportMetadata(filtered, now) ==
    << <<"export_timestamp", IntV(now)>>,
       <<"filter_criteria",
         StrV(<<"d","y","n","a","m","i","c","_","f","i","l","t","e","r","_",
                "a","p","p","l","i","e","d">>)>>,
       <<"record_count", IntV(NRows(filtered))>> >>

\* the branch of store_filtered_pages_to_csv for a table with rows
GatewayExport(filtered, output_path, now, fs, io_fails) ==
    LET fs1 == CsvStorageAdapter_init(fs)
        e == export_with_metadata(filtered, output_path,
                                  FilteredExportMetadata(filtered, now), fs1, io_fails)
    IN  IF StoreRaises(e)
        THEN [raised |-> TRUE, value |-> output_path, metadata |-> NoMetadata,
              fs |-> e.fs, export |-> ExportOf(e, io_fails)]
        ELSE [raised |-> FALSE, value |-> output_path,
              metadata |-> [recorded |-> TRUE, output_path |-> output_path,
                            record_count |-> NRows(filtered),
                            is_placeholder |-> FALSE],
              fs |-> e.fs, export |-> ExportOf(e, io_fails)]

\* the empty check left out: every table goes to the gateway
TakesPlaceholderPath_Never(filtered) == FALSE

\* if filter_pages_by_criteria.empty
TakesPlaceholderPath(filtered) == IsEmpty(filtered)

\* store_filtered_pages_to_csv
store_filtered_pages_to_csv(filtered, now, fs, io_fails) ==
    LET output_path == <<"data", "filtered_pages.csv">>
    IN  IF TakesPlaceholderPath(filtered)
        THEN PlaceholderExport(output_path, fs, io_fails)
        ELSE GatewayExport(filtered, output_path, now, fs, io_fails)

(***************************************************************************)
(* The stage graph (the parameters of the asset functions name their       *)
(* upstream assets), the jobs of usecase/jobs.py and definitions.py.       *)
(***************************************************************************)
Stages ==
    {"fetch_raw_pages", "validate_pages", "clean_and_process_pages",
     "store_pages_to_csv", "filter_pages_by_criteria", "store_filtered_pages_to_csv"}

\* the upstream assets each asset function declares as parameters
Deps(s) ==
    CASE s = "fetch_raw_pages" -> {}
      [] s = "validate_pages" -> {"fetch_raw_pages"}
      [] s = "clean_and_process_pages" -> {"validate_pages"}
      [] s = "store_pages_to_csv" -> {"clean_and_process_pages"}
      [] s = "filter_pages_by_criteria" -> {"clean_and_process_pages"}
      [] s = "store_filtered_pages_to_csv" -> {"filter_pages_by_criteria"}

\* the stages s depends on, directly or transitively
RECURSIVE Upstream(_)
Upstream(s) == Deps(s) \cup UNION {Upstream(u) : u \in Deps(s)}

JobNames ==
    {"wikipedia_etl_job", "filter_pages_job", "full_pipeline_job", "validation_job"}

\* the selection= list of each define_asset_job
JobSelection(j) ==
    CASE j = "wikipedia_etl_job" ->
           {"fetch_raw_pages", "validate_pages", "clean_and_process_pages",
            "store_pages_to_csv"}
      [] j = "filter_pages_job" ->
           {"fetch_raw_pages", "validate_pages", "clean_and_process_pages",
            "filter_pages_by_criteria", "store_filtered_pages_to_csv"}
      [] j = "full_pipeline_job" -> Stages
      [] j = "validation_job" -> {"fetch_raw_pages", "validate_pages"}
      [] OTHER -> {}

\* a selection with the declared dependencies of its stages
DependencyClosure(sel) == sel \cup UNION {Upstream(s) : s \in sel}

\* all_assets = defs.assets or []: what execute_job hands to materialize,
\* whatever the job it was asked to run
MaterializedAssets(j) == Stages

(***************************************************************************)
(* The inputs: the job named on the command line, and the pages the        *)
(* source answers with.                                                    *)
(***************************************************************************)
JobArgs == JobNames \cup {"no_such_job"}

SamplePages ==
    { [pageid |-> IntV(1), ns |-> IntV(0),
       title |-> StrV(<<"W","i","k","i","p","e","d","i","a",":","A">>)],
      [pageid |-> IntV(2), title |-> StrV(<<"m","a","i","n"," ","p","a","g","e">>)],
      [pageid |-> IntV(3), title |-> StrV(<<"L","i","s","t">>)],
      [pageid |-> IntV(1), title |-> StrV(<<" ","D","u"," "," ","p","\t">>)],
      [pageid |-> IntV(5), title |-> StrV(<<"n","a","n">>)],
      [pageid |-> IntV(0), title |-> StrV(<<"Z","e","r","o">>)],
      [pageid |-> IntV(6), title |-> StrV(<<>>)],
      [pageid |-> IntV(7)] }

RECURSIVE SeqsUpTo(_, _)
SeqsUpTo(S, n) ==
    IF n = 0 THEN {<<>>}
    ELSE LET shorter == SeqsUpTo(S, n - 1)
         IN  shorter \cup {Append(q, x) : q \in shorter, x \in S}

Responses ==
    {[kind |-> k, pages |-> <<>>] : k \in ResponseKinds \ {"ok"}}
        \cup {[kind |-> "ok", pages |-> ps] : ps \in SeqsUpTo(SamplePages, MaxRows)}

(***************************************************************************)
(* State.                                                                  *)
(***************************************************************************)
VARIABLES
    job_name,      \* execute_job's job_name argument
    dry_run,       \* execute_job's dry_run argument
    pc,            \* where main is: "lookup" (it has started; execute_job, once
                   \* called, looks the job up), "materialize", "done"
    returned,      \* what execute_job returned: "none" until it returns
    status,        \* the state of each stage in the run
    attempts,      \* how many times each stage function was invoked
    requests,      \* how many HTTP requests were issued
    output,        \* the value each stage returned
    metadata,      \* the output metadata each stage recorded
    export,        \* what each store stage did with the storage gateway
    filter_trace,  \* the rungs filter_pages_by_criteria applied, and the tier
    fs,            \* the file system
    clock,         \* the time datetime.now() reads
    call,          \* a call of one service or gateway operation on its own:
                   \* the operation, its arguments and what it returned
    argv,          \* the form of the command line main was started with
    exit_code,     \* the exit code of the process: NoExit while it runs
    env            \* os.environ: as it was when the process started (start)
                   \* and as it is (now)

vars == <<job_name, dry_run, pc, returned, status, attempts, requests, output,
          metadata, export, filter_trace, fs, clock, call, argv, exit_code, env>>

StoreStages == {"store_pages_to_csv", "store_filtered_pages_to_csv"}

NoOutput == DataFrame(<<>>, <<>>)

\* no operation has been called on its own
NoCall ==
    [op |-> "none", adapter |-> "", df |-> NoOutput, arg |-> <<>>,
     result |-> ProcessingResult(FALSE, "", 0, <<>>), raised |-> FALSE, exc |-> "",
     out |-> NoOutput, df_after |-> NoOutput,
     fs_before |-> [dirs |-> {}, files |-> <<>>]]

\* the process has not exited
NoExit == 0 - 1

\* sys.exit(0 if success else 1)
ExitCode(success) == IF success THEN 0 ELSE 1

\* the command lines of main: --job NAME with or without --dry-run, no
\* argument at all, --list-jobs, options that name no action (--verbose
\* alone), and one the parser rejects (an unknown option)
ArgvForms == {"job", "no_args", "list_jobs", "no_action", "bad_option"}

Init ==
    /\ argv \in ArgvForms
    /\ job_name \in (IF argv = "job" THEN JobArgs ELSE {""})
    /\ dry_run \in (IF argv = "job" THEN BOOLEAN ELSE {FALSE})
    /\ exit_code = NoExit
    /\ env = [start |-> UnsetEnvironment, now |-> UnsetEnvironment]
    /\ pc = "lookup"
    /\ returned = "none"
    /\ status = [s \in Stages |-> "PENDING"]
    /\ attempts = [s \in Stages |-> 0]
    /\ requests = 0
    /\ output = [s \in Stages |-> NoOutput]
    /\ metadata = [s \in Stages |-> NoMetadata]
    /\ export = [s \in StoreStages |-> NoExport]
    /\ filter_trace = [applied |-> <<>>, tier |-> 0 - 1]
    /\ fs \in {[dirs |-> {}, files |-> <<>>], [dirs |-> {base_path}, files |-> <<>>]}
    /\ clock = 0
    /\ call = NoCall

(***************************************************************************)
(* ui/cli.py: main, when it does not call execute_job.                     *)
(***************************************************************************)
\* args = parser.parse_args() on a command line the parser rejects:
\* argparse prints the usage and ends the process with status 2
MainUsageError ==
    /\ pc = "lookup"
    /\ argv = "bad_option"
    /\ pc' = "done"
    /\ exit_code' = 2
    /\ UNCHANGED <<argv, env, call, job_name, dry_run, returned, status, attempts,
                   requests, output, metadata, export, filter_trace, fs, clock>>

\* if len(sys.argv) == 1: parser.print_help(); sys.exit(0)
MainNoArguments ==
    /\ pc = "lookup"
    /\ argv = "no_args"
    /\ pc' = "done"
    /\ exit_code' = 0
    /\ UNCHANGED <<argv, env, call, job_name, dry_run, returned, status, attempts,
                   requests, output, metadata, export, filter_trace, fs, clock>>

\* if args.list_jobs: list_available_jobs(); sys.exit(0)
MainListJobs ==
    /\ pc = "lookup"
    /\ argv = "list_jobs"
    /\ pc' = "done"
    /\ exit_code' = 0
    /\ UNCHANGED <<argv, env, call, job_name, dry_run, returned, status, attempts,
                   requests, output, metadata, export, filter_trace, fs, clock>>

\* neither --list-jobs nor --job: parser.print_help() and main returns, so
\* the interpreter ends with status 0
MainNoAction ==
    /\ pc = "lookup"
    /\ argv = "no_action"
    /\ pc' = "done"
    /\ exit_code' = 0
    /\ UNCHANGED <<argv, env, call, job_name, dry_run, returned, status, attempts,
                   requests, output, metadata, export, filter_trace, fs, clock>>

(***************************************************************************)
(* ui/cli.py: main calling execute_job (if args.job), and the              *)
(* sys.exit(0 if success else 1) that follows its return.                  *)
(***************************************************************************)
\* if job_name not in jobs_dict: return False
JobNotFound ==
    /\ pc = "lookup"
    /\ argv = "job"
    /\ job_name \notin JobNames
    /\ pc' = "done"
    /\ returned' = "false"
    /\ exit_code' = ExitCode(FALSE)
    /\ UNCHANGED <<argv, env, call, job_name, dry_run, status, attempts, requests, output,
                   metadata, export, filter_trace, fs, clock>>

\* if dry_run: ... return True
DryRun ==
    /\ pc = "lookup"
    /\ argv = "job"
    /\ job_name \in JobNames
    /\ dry_run
    /\ pc' = "done"
    /\ returned' = "true"
    /\ exit_code' = ExitCode(TRUE)
    /\ UNCHANGED <<argv, env, call, job_name, dry_run, status, attempts, requests, output,
                   metadata, export, filter_trace, fs, clock>>

\* result = materialize(all_assets, instance=instance) is entered
BeginMaterialize ==
    /\ pc = "lookup"
    /\ argv = "job"
    /\ job_name \in JobNames
    /\ ~dry_run
    /\ MaterializedAssets(job_name) # {}
    /\ pc' = "materialize"
    /\ UNCHANGED <<argv, env, exit_code, call, job_name, dry_run, returned, status, attempts, requests, output,
                   metadata, export, filter_trace, fs, clock>>

(***************************************************************************)
(* materialize: the in-process executor runs the steps one at a time in    *)
(* dependency order; raise_on_error is left at its default, so the first   *)
(* step that fails ends the run with its exception.                        *)
(***************************************************************************)
NoneRunning == \A s \in Stages : status[s] # "RUNNING"

AnyFailed == \E s \in Stages : status[s] = "FAILED"

\* CanStart as an executor that goes on after a failure would have it: a
\* stage starts once its upstream stages have ended, whatever their outcome
CanStart_AfterFailure(s) ==
    /\ s \in MaterializedAssets(job_name)
    /\ status[s] = "PENDING"
    /\ \A u \in Deps(s) : status[u] \in {"SUCCEEDED", "FAILED"}

\* CanStart as an executor that retries would have it: a failed stage may
\* be started again
CanStart_Retry(s) ==
    /\ s \in MaterializedAssets(job_name)
    /\ status[s] \in {"PENDING", "FAILED"}
    /\ \A u \in Deps(s) : status[u] = "SUCCEEDED"

\* CanStart as an executor that ignores the declared inputs would have it
CanStart_AnyOrder(s) ==
    /\ s \in MaterializedAssets(job_name)
    /\ status[s] = "PENDING"
    /\ ~AnyFailed

\* the executor may start stage s
CanStart(s) ==
    /\ s \in MaterializedAssets(job_name)
    /\ status[s] = "PENDING"
    /\ \A u \in Deps(s) : status[u] = "SUCCEEDED"
    /\ ~AnyFailed

StartStage(s) ==
    /\ pc = "materialize"
    /\ NoneRunning
    /\ CanStart(s)
    /\ status' = [status EXCEPT ![s] = "RUNNING"]
    /\ attempts' = [attempts EXCEPT ![s] = @ + 1]
    /\ UNCHANGED <<argv, env, exit_code, call, job_name, dry_run, pc, returned, requests, output, metadata,
                   export, filter_trace, fs, clock>>

\* the state a stage function leaves its stage in
Outcome(r) == IF r.raised THEN "FAILED" ELSE "SUCCEEDED"

\* the stage function of s has run with outcome r
Finish(s, r) ==
    /\ status' = [status EXCEPT ![s] = Outcome(r)]
    /\ output' = [output EXCEPT ![s] = IF r.raised THEN @ ELSE r.value]
    /\ metadata' = [metadata EXCEPT ![s] = r.metadata]

RunFetchAnswered(responses) ==
    /\ pc = "materialize"
    /\ status["fetch_raw_pages"] = "RUNNING"
    /\ \E response \in responses :
          Finish("fetch_raw_pages", fetch_raw_pages(response, env.now))
    /\ requests' = requests + 1
    /\ UNCHANGED <<argv, env, exit_code, call, job_name, dry_run, pc, returned, attempts, export,
                   filter_trace, fs, clock>>

RunFetch == RunFetchAnswered(Responses)

RunValidate ==
    /\ pc = "materialize"
    /\ status["validate_pages"] = "RUNNING"
    /\ Finish("validate_pages", validate_pages(output["fetch_raw_pages"]))
    /\ UNCHANGED <<argv, env, exit_code, call, job_name, dry_run, pc, returned, attempts, requests, export,
                   filter_trace, fs, clock>>

RunClean ==
    /\ pc = "materialize"
    /\ status["clean_and_process_pages"] = "RUNNING"
    /\ Finish("clean_and_process_pages",
              clean_and_process_pages(output["validate_pages"], clock))
    /\ clock' = clock + 1
    /\ UNCHANGED <<argv, env, exit_code, call, job_name, dry_run, pc, returned, attempts, requests, export,
                   filter_trace, fs>>

RunStorePages ==
    /\ pc = "materialize"
    /\ status["store_pages_to_csv"] = "RUNNING"
    /\ \E io_fails \in BOOLEAN :
          LET r == store_pages_to_csv(output["clean_and_process_pages"], clock,
                                      fs, io_fails, env.now)
          IN  /\ Finish("store_pages_to_csv", r)
              /\ fs' = r.fs
              /\ export' = [export EXCEPT !["store_pages_to_csv"] = r.export]
    /\ clock' = clock + 1
    /\ UNCHANGED <<argv, env, exit_code, call, job_name, dry_run, pc, returned, attempts, requests, filter_trace>>

RunFilter ==
    /\ pc = "materialize"
    /\ status["filter_pages_by_criteria"] = "RUNNING"
    /\ LET r == filter_pages_by_criteria(output["clean_and_process_pages"])
       IN  /\ Finish("filter_pages_by_criteria", r)
           /\ filter_trace' = [applied |-> r.applied, tier |-> r.tier]
    /\ UNCHANGED <<argv, env, exit_code, call, job_name, dry_run, pc, returned, attempts, requests, export,
                   fs, clock>>

RunStoreFiltered ==
    /\ pc = "materialize"
    /\ status["store_filtered_pages_to_csv"] = "RUNNING"
    /\ \E io_fails \in BOOLEAN :
          LET r == store_filtered_pages_to_csv(output["filter_pages_by_criteria"],
                                               clock, fs, io_fails)
          IN  /\ Finish("store_filtered_pages_to_csv", r)
              /\ fs' = r.fs
              /\ export' = [export EXCEPT !["store_filtered_pages_to_csv"] = r.export]
    /\ clock' = clock + 1
    /\ UNCHANGED <<argv, env, exit_code, call, job_name, dry_run, pc, returned, attempts, requests, filter_trace>>

\* except Exception as e: ... return False
MaterializeRaises ==
    /\ pc = "materialize"
    /\ NoneRunning
    /\ AnyFailed
    /\ pc' = "done"
    /\ returned' = "false"
    /\ exit_code' = ExitCode(FALSE)
    /\ UNCHANGED <<argv, env, call, job_name, dry_run, status, attempts, requests, output,
                   metadata, export, filter_trace, fs, clock>>

\* every step has run: if result.success: ... return True
MaterializeReturns ==
    /\ pc = "materialize"
    /\ \A s \in MaterializedAssets(job_name) : status[s] = "SUCCEEDED"
    /\ pc' = "done"
    /\ returned' = "true"
    /\ exit_code' = ExitCode(TRUE)
    /\ UNCHANGED <<argv, env, call, job_name, dry_run, status, attempts, requests, output,
                   metadata, export, filter_trace, fs, clock>>

Next ==
    \/ MainUsageError
    \/ MainNoArguments
    \/ MainListJobs
    \/ MainNoAction
    \/ JobNotFound
    \/ DryRun
    \/ BeginMaterialize
    \/ \E s \in Stages : StartStage(s)
    \/ RunFetch
    \/ RunValidate
    \/ RunClean
    \/ RunStorePages
    \/ RunFilter
    \/ RunStoreFiltered
    \/ MaterializeRaises
    \/ MaterializeReturns

Spec == Init /\ [][Next]_vars

(***************************************************************************)
(* Properties.                                                             *)
(***************************************************************************)
Downstream(a) == {b \in Stages : a \in Upstream(b)}

\* C1: if a stage reaches FAILED, no stage that depends on it directly or
\* transitively is ever invoked (it stays PENDING, its function is never
\* called), and execute_job reports the job as failed.
C1_FailureHaltsDownstream ==
    /\ \A a \in Stages :
          status[a] = "FAILED" =>
              \A b \in Downstream(a) : status[b] = "PENDING" /\ attempts[b] = 0
    /\ (pc = "done" /\ AnyFailed) => returned = "false"

C1_Witness ==
    /\ pc = "done"
    /\ status["validate_pages"] = "FAILED"
    /\ attempts["validate_pages"] = 1
    /\ returned = "false"

\* C2: a run of job J invokes only the stages of J's selection and their
\* declared dependencies; every other stage stays PENDING.
C2_OnlySelectedStagesRun ==
    \A s \in Stages \ DependencyClosure(JobSelection(job_name)) :
        status[s] = "PENDING" /\ attempts[s] = 0

\* C3: every stage moves only PENDING -> RUNNING -> SUCCEEDED or FAILED,
\* the two final states are never left, each stage function is invoked at
\* most once in a run and the fetch stage issues at most one request.
C3_StageLifecycle ==
    [][ /\ \A s \in Stages :
              /\ status'[s] # status[s] =>
                    <<status[s], status'[s]>> \in
                        { <<"PENDING", "RUNNING">>, <<"RUNNING", "SUCCEEDED">>,
                          <<"RUNNING", "FAILED">> }
              /\ attempts'[s] = attempts[s] +
                    (IF status[s] # "RUNNING" /\ status'[s] = "RUNNING" THEN 1 ELSE 0)
              /\ attempts'[s] <= 1
        /\ requests' <= attempts'["fetch_raw_pages"] ]_vars

C3_Witness ==
    /\ pc = "done"
    /\ status["fetch_raw_pages"] = "FAILED"
    /\ attempts["fetch_raw_pages"] = 1
    /\ requests = 1

\* C4: a stage is RUNNING or finished only if every stage upstream of it
\* has SUCCEEDED; so no transform stage runs before validate_pages succeeded.
C4_DependencyOrder ==
    \A s \in Stages :
        status[s] # "PENDING" => \A u \in Upstream(s) : status[u] = "SUCCEEDED"

C4_Witness ==
    /\ status["filter_pages_by_criteria"] = "RUNNING"
    /\ status["validate_pages"] = "SUCCEEDED"

(***************************************************************************)
(* The cascading filter policy, read off the finished filter stage.        *)
(***************************************************************************)
FilterDone == status["filter_pages_by_criteria"] = "SUCCEEDED"

FilterInput == output["clean_and_process_pages"]

FilterOutput == output["filter_pages_by_criteria"]

FilterTag == metadata["filter_pages_by_criteria"].filter_criteria

\* the rows of df whose title holds term, letter case ignored, in order
RowsWithTitle(df, term) ==
    SelectRows(df.rows,
               {i \in 1..NRows(df) :
                   Contains(Lower(AsStr(df.rows[i]["title"])), Lower(term))},
               1)

IsPrefix(p, q) == Len(p) <= Len(q) /\ p = SubSeq(q, 1, Len(p))

FallbackTag(k) == "first " \o IntText(k) \o " records (fallback)"

\* C5: the ladder is walked in order and the result is that of the first
\* rung whose result has rows, tagged with that rung; a later rung is not
\* applied once an earlier one matched.
C5_FirstMatchingRungWins ==
    FilterDone =>
        LET r0 == RowsWithTitle(FilterInput, <<"W","i","k","i","p","e","d","i","a">>)
            r1 == RowsWithTitle(FilterInput, <<"M","a","i","n">>)
        IN  /\ r0 # <<>> =>
                /\ FilterOutput.rows = r0
                /\ filter_trace = [applied |-> <<0>>, tier |-> 0]
                /\ FilterTag = "title contains 'Wikipedia'"
            /\ (r0 = <<>> /\ r1 # <<>>) =>
                /\ FilterOutput.rows = r1
                /\ filter_trace = [applied |-> <<0, 1>>, tier |-> 1]
                /\ FilterTag = "title contains 'Main'"
            /\ (r0 = <<>> /\ r1 = <<>>) =>
                /\ IsPrefix(FilterOutput.rows, FilterInput.rows)
                /\ filter_trace = [applied |-> <<0, 1, 2>>, tier |-> 2]
                /\ FilterTag = FallbackTag(NRows(FilterInput) \div 2)

C5_Witness ==
    /\ FilterDone
    /\ filter_trace.tier = 0
    /\ RowsWithTitle(FilterInput, <<"M","a","i","n">>) # <<>>
    /\ RowsWithTitle(FilterInput, <<"M","a","i","n">>) # FilterOutput.rows

TruncationTaken == FilterDone /\ NRows(FilterInput) >= 1 /\ filter_trace.tier = 2

\* C6 as claimed: when both filters match nothing on n >= 1 rows, the
\* truncation returns exactly the first ceil(n/2) rows, tagged tier 2.
C6_TruncationTakesCeilHalf ==
    TruncationTaken =>
        /\ FilterOutput.rows = SubSeq(FilterInput.rows, 1, (NRows(FilterInput) + 1) \div 2)
        /\ FilterTag = FallbackTag(NRows(FilterInput) \div 2)

\* C6 as amended: when both filters match nothing on n >= 1 rows, the
\* truncation returns exactly the first floor(n/2) rows, or the first row
\* when n = 1, tagged tier 2 (the fallback tag).
C6_TruncationTakesFloorHalf ==
    TruncationTaken =>
        LET n == NRows(FilterInput)
        IN  /\ FilterOutput.rows = SubSeq(FilterInput.rows, 1, IF n = 1 THEN 1 ELSE n \div 2)
            /\ FilterTag = FallbackTag(n \div 2)

C6_Witness ==
    /\ TruncationTaken
    /\ NRows(FilterInput) = 3
    /\ NRows(FilterOutput) = 1

\* C7: the result of the policy is empty if and only if its input has no
\* rows; on such an input every rung is applied and yields nothing, the
\* stage does not raise and the result carries the fallback tag.
C7_EmptyOnlyForEmptyInput ==
    /\ status["filter_pages_by_criteria"] # "FAILED"
    /\ FilterDone =>
          /\ NRows(FilterOutput) = 0 <=> NRows(FilterInput) = 0
          /\ NRows(FilterInput) = 0 =>
                /\ filter_trace = [applied |-> <<0, 1, 2>>, tier |-> 2]
                /\ FilterTag = FallbackTag(0)

C7_Witness ==
    /\ FilterDone
    /\ NRows(FilterInput) = 0
    /\ NRows(FilterOutput) = 0

(***************************************************************************)
(* The store stages and the storage gateway.                               *)
(***************************************************************************)
StoreFiltered == "store_filtered_pages_to_csv"

Finished(s) == status[s] \in {"SUCCEEDED", "FAILED"}

\* the value of one metadata entry, <<>>-terminated lookup in the item list
RECURSIVE MetadataEntry(_, _)
MetadataEntry(items, key) ==
    IF items = <<>> THEN NoneV
    ELSE IF items[1][1] = key THEN items[1][2]
    ELSE MetadataEntry(Tail(items), key)

\* the tables the cleaning stage hands to the filter stage for each
\* one-page answer of the source that passes validation
ReferenceFilterInputs ==
    {clean_and_process_pages(DataFrame(SchemaColumns, <<PageRow(p)>>), 0).value :
        p \in {q \in SamplePages :
                  SchemaValid(DataFrame(SchemaColumns, <<PageRow(q)>>))}}

\* the tier tag the export of a run carries: the filter_criteria entry
\* store_filtered_pages_to_csv attaches to the rows the ladder returned
ExportedTierTag(filter_input) ==
    MetadataEntry(FilteredExportMetadata(Ladder(filter_input).df, 0), "filter_criteria")

\* C8: the tier that produced the filtered rows is propagated to the
\* export of store_filtered_pages_to_csv: the tier tag this run exported
\* differs from the tag exported by any run whose rows came from another
\* tier, and the stage metadata carries the tag of the filter stage.
C8_TierTagPropagated ==
    (status[StoreFiltered] = "SUCCEEDED" /\ export[StoreFiltered].called) =>
        \A other \in ReferenceFilterInputs :
            Ladder(other).tier # filter_trace.tier =>
                export[StoreFiltered].saved.rows[1]["meta_filter_criteria"]
                    # ExportedTierTag(other)

\* the headers-only file of the placeholder path
PlaceholderPath == <<"data", "filtered_pages.csv">>

PlaceholderWritten ==
    /\ PlaceholderPath \in DOMAIN fs.files
    /\ fs.files[PlaceholderPath] = [header |-> PlaceholderColumns, lines |-> <<>>]

C10_ExportErrorsAreOutcomes ==
    \A s \in StoreStages :
        (Finished(s) /\ export[s].called) =>
            /\ ~export[s].save_raised
            /\ ~export[s].raised
            /\ (export[s].io_failed \/ IsEmpty(export[s].saved))
                  => ~export[s].result.success
            /\ ~export[s].result.success =>
                  /\ status[s] = "FAILED"
                  /\ Len(export[s].result.errors) > 0
                  /\ pc = "done" => returned = "false"
            /\ export[s].result.success => status[s] = "SUCCEEDED"

C10_Witness ==
    /\ pc = "done"
    /\ export["store_pages_to_csv"].called
    /\ export["store_pages_to_csv"].io_failed
    /\ ~IsEmpty(export["store_pages_to_csv"].saved)
    /\ status["store_pages_to_csv"] = "FAILED"

(***************************************************************************)
(* The operations called on their own.  ServiceSpec calls one operation of *)
(* the domain services or of the storage gateway on a table drawn from     *)
(* Tables, as the tests of src/tests do, and records the call.  A table    *)
(* has rows only if it has columns.                                        *)
(***************************************************************************)
MaxTableRows == 2

TableRow(pageid, title, ns) ==
    [c \in {"pageid", "title", "ns"} |->
        CASE c = "pageid" -> pageid
          [] c = "title" -> title
          [] OTHER -> ns]

SampleRows ==
    { TableRow(IntV(1), StrV(Chars("List of a")), IntV(0)),
      TableRow(IntV(2), StrV(Chars("list")), IntV(0)),
      TableRow(StrV(Chars("3")), StrV(Chars("Wikipedia:P")), NoneV),
      TableRow(IntV(0), StrV(Chars("Main")), IntV(0)),
      TableRow(IntV(5), StrV(<<>>), IntV(0)),
      TableRow(IntV(6), NoneV, IntV(0)),
      TableRow(IntV(7), StrV(Chars("nan")), IntV(0)),
      TableRow(StrV(Chars("x")), StrV(Chars("7")), IntV(0)) }

ColumnLists ==
    { <<"pageid">>, <<"title">>, <<"ns">>, <<"pageid", "title">>,
      <<"title", "pageid">>, <<"pageid", "title", "ns">> }

\* the table of the given columns made of the given rows
Project(cols, rows) ==
    DataFrame(cols,
        [i \in 1..Len(rows) |-> [c \in {cols[k] : k \in 1..Len(cols)} |-> rows[i][c]]])

\* the four pages of the filter example of the tests
ExampleTable ==
    DataFrame(<<"pageid", "title">>,
        << [pageid |-> IntV(1), title |-> StrV(Chars("List of countries"))],
           [pageid |-> IntV(2), title |-> StrV(Chars("Wikipedia:Policies"))],
           [pageid |-> IntV(3), title |-> StrV(Chars("List of cities"))],
           [pageid |-> IntV(4), title |-> StrV(Chars("Main article"))] >>)

Tables ==
    {DataFrame(<<>>, <<>>), ExampleTable}
        \cup {Project(cols, rows) :
                cols \in ColumnLists, rows \in SeqsUpTo(SampleRows, MaxTableRows)}

RequiredColumnLists ==
    { <<>>, <<"pageid">>, <<"pageid", "title">>, <<"title", "ns">>,
      <<"pageid", "name", "value">> }

FilterSets ==
    { <<>>,
      << <<"title", StrV(Chars("contains:List of"))>> >>,
      << <<"title", StrV(Chars("contains:LIST"))>> >>,
      << <<"title", StrV(Chars("startswith:List"))>> >>,
      << <<"title", StrV(Chars("startswith:list"))>> >>,
      << <<"title", StrV(Chars("list"))>> >>,
      << <<"title", StrV(Chars("MAIN"))>> >>,
      << <<"pageid", IntV(1)>> >>,
      << <<"title", StrV(Chars("contains:i"))>>, <<"pageid", IntV(2)>> >>,
      << <<"title", StrV(Chars("startswith:W"))>>, <<"ns", IntV(0)>> >>,
      << <<"name", StrV(Chars("x"))>>, <<"title", StrV(Chars("contains:a"))>> >>,
      << <<"name", StrV(Chars("contains:x"))>> >> }

MetadataSets ==
    { <<>>,
      << <<"source", StrV(Chars("test"))>> >>,
      << <<"source", StrV(Chars("test"))>>, <<"timestamp", IntV(1)>> >> }

Adapters == {"csv", "json"}

\* the relative path the storage calls are given
Destination == <<"pages.csv">>

\* a file an earlier export left at the destination
OldFile == CsvContent(Project(<<"pageid">>, <<TableRow(IntV(9), NoneV, NoneV)>>))

InitialFileSystems ==
    { [dirs |-> {}, files |-> <<>>],
      [dirs |-> {base_path}, files |-> <<>>],
      [dirs |-> {base_path},
       files |-> [p \in {base_path \o Destination} |-> OldFile]] }

\* the key_columns deduplicate_data is called with; <<>> is the omitted one
KeyColumnLists ==
    { <<>>, <<"pageid">>, <<"ns">>, <<"title", "ns">>, <<"name">> }

\* rows whose title carries whitespace or one of the null texts
TextRows ==
    { TableRow(IntV(1), StrV(<<" ","D","u"," "," ","p","\t">>), IntV(0)),
      TableRow(IntV(2), StrV(Chars("a\n b")), IntV(10)),
      TableRow(IntV(3), StrV(Chars(" ")), NoneV),
      TableRow(IntV(4), StrV(Chars("None ")), IntV(0)),
      TableRow(IntV(5), StrV(Chars("nan")), IntV(0)),
      TableRow(IntV(6), NoneV, IntV(0)),
      TableRow(IntV(7), StrV(Chars("List")), IntV(0)) }

TextTables ==
    {Project(cols, rows) :
        cols \in {<<"title">>, <<"pageid", "title">>, <<"pageid", "title", "ns">>},
        rows \in SeqsUpTo(TextRows, MaxTableRows)}

\* the text_columns clean_text_data is called with
TextColumnLists ==
    { <<>>, <<"title">>, <<"title", "ns">>, <<"name">>, <<"name", "title">> }

ServiceInit ==
    /\ argv = "job"
    /\ exit_code = NoExit
    /\ env = [start |-> UnsetEnvironment, now |-> UnsetEnvironment]
    /\ job_name = "full_pipeline_job"
    /\ dry_run = FALSE
    /\ pc = "lookup"
    /\ returned = "none"
    /\ status = [s \in Stages |-> "PENDING"]
    /\ attempts = [s \in Stages |-> 0]
    /\ requests = 0
    /\ output = [s \in Stages |-> NoOutput]
    /\ metadata = [s \in Stages |-> NoMetadata]
    /\ export = [s \in StoreStages |-> NoExport]
    /\ filter_trace = [applied |-> <<>>, tier |-> 0 - 1]
    /\ clock = 0
    /\ fs \in InitialFileSystems
    /\ call = NoCall

\* ValidationService.validate_wikipedia_pages(df)
CallValidateWikipediaPages ==
    /\ call.op = "none"
    /\ \E df \in Tables :
          call' = [NoCall EXCEPT !.op = "validate_wikipedia_pages", !.df = df,
                                 !.result = validate_wikipedia_pages(df),
                                 !.df_after = df, !.fs_before = fs]
    /\ UNCHANGED <<argv, env, exit_code, job_name, dry_run, pc, returned, status, attempts, requests,
                   output, metadata, export, filter_trace, fs, clock>>

\* ValidationService.validate_generic_data(df, required_columns)
CallValidateGenericData ==
    /\ call.op = "none"
    /\ \E df \in Tables, required_columns \in RequiredColumnLists :
          call' = [NoCall EXCEPT !.op = "validate_generic_data", !.df = df,
                                 !.arg = required_columns,
                                 !.result = validate_generic_data(df, required_columns),
                                 !.df_after = df, !.fs_before = fs]
    /\ UNCHANGED <<argv, env, exit_code, job_name, dry_run, pc, returned, status, attempts, requests,
                   output, metadata, export, filter_trace, fs, clock>>

\* DataProcessingService.filter_data(df, filters): df.copy() is filtered,
\* the caller's table is not assigned to
CallFilterData ==
    /\ call.op = "none"
    /\ \E df \in Tables, filters \in FilterSets :
          call' = [NoCall EXCEPT !.op = "filter_data", !.df = df, !.arg = filters,
                                 !.out = filter_data(df, filters),
                                 !.df_after = df, !.fs_before = fs]
    /\ UNCHANGED <<argv, env, exit_code, job_name, dry_run, pc, returned, status, attempts, requests,
                   output, metadata, export, filter_trace, fs, clock>>

\* StorageFactory.create_adapter(adapter).save_data(df, destination)
CallSaveData ==
    /\ call.op = "none"
    /\ \E df \in Tables, adapter \in Adapters, io_fails \in BOOLEAN :
          LET r == IF adapter = "csv"
                   THEN save_data(df, Destination, CsvStorageAdapter_init(fs), io_fails)
                   ELSE JsonStorageAdapter_save_data(df, Destination,
                                                     JsonStorageAdapter_init(fs), io_fails)
          IN  /\ call' = [NoCall EXCEPT !.op = "save_data", !.adapter = adapter,
                                        !.df = df, !.result = r.result,
                                        !.raised = r.raised, !.out = df,
                                        !.df_after = df, !.fs_before = fs]
              /\ fs' = r.fs
    /\ UNCHANGED <<argv, env, exit_code, job_name, dry_run, pc, returned, status, attempts, requests,
                   output, metadata, export, filter_trace, clock>>

\* DataExporter(CsvStorageAdapter()).export_with_metadata(df, destination,
\* metadata)
CallExportWithMetadata ==
    /\ call.op = "none"
    /\ \E df \in Tables, md \in MetadataSets, io_fails \in BOOLEAN :
          LET e == export_with_metadata(df, Destination, md,
                                        CsvStorageAdapter_init(fs), io_fails)
          IN  /\ call' = [NoCall EXCEPT !.op = "export_with_metadata",
                                        !.adapter = "csv", !.df = df, !.arg = md,
                                        !.result = e.result, !.raised = e.raised,
                                        !.out = e.saved, !.df_after = e.caller_df,
                                        !.fs_before = fs]
              /\ fs' = e.fs
    /\ UNCHANGED <<argv, env, exit_code, job_name, dry_run, pc, returned, status, attempts, requests,
                   output, metadata, export, filter_trace, clock>>

\* load_data(destination) on the adapter whose save_data has just succeeded
CallLoadData ==
    /\ call.op = "save_data"
    /\ call.result.success
    /\ LET r == IF call.adapter = "csv"
                THEN load_data(Destination, fs)
                ELSE JsonStorageAdapter_load_data(Destination, fs)
       IN  call' = [call EXCEPT !.op = "load_data", !.raised = r.raised,
                                !.out = r.value]
    /\ UNCHANGED <<argv, env, exit_code, job_name, dry_run, pc, returned, status, attempts, requests,
                   output, metadata, export, filter_trace, fs, clock>>

\* DataProcessingService.deduplicate_data(df, subset_columns):
\* drop_duplicates raises KeyError for a subset column the table lacks
CallDeduplicateData ==
    /\ call.op = "none"
    /\ \E df \in Tables, subset_columns \in KeyColumnLists :
          IF \E k \in 1..Len(subset_columns) : subset_columns[k] \notin ColumnSet(df)
          THEN call' = [NoCall EXCEPT !.op = "deduplicate_data", !.df = df,
                                      !.arg = subset_columns, !.raised = TRUE,
                                      !.exc = "KeyError",
                                      !.df_after = df, !.fs_before = fs]
          ELSE call' = [NoCall EXCEPT !.op = "deduplicate_data", !.df = df,
                                      !.arg = subset_columns,
                                      !.out = deduplicate_data(df, subset_columns),
                                      !.df_after = df, !.fs_before = fs]
    /\ UNCHANGED <<argv, env, exit_code, job_name, dry_run, pc, returned, status, attempts, requests,
                   output, metadata, export, filter_trace, fs, clock>>

\* DataProcessingService.clean_text_data(df, text_columns): df.copy() is
\* cleaned, the caller's table is not assigned to
CallCleanTextData ==
    /\ call.op = "none"
    /\ \E df \in TextTables, text_columns \in TextColumnLists :
          call' = [NoCall EXCEPT !.op = "clean_text_data", !.df = df,
                                 !.arg = text_columns,
                                 !.out = clean_text_data(df, text_columns),
                                 !.df_after = df, !.fs_before = fs]
    /\ UNCHANGED <<argv, env, exit_code, job_name, dry_run, pc, returned, status, attempts, requests,
                   output, metadata, export, filter_trace, fs, clock>>

\* WikipediaApiClient().fetch_wikipedia_pages(api_url) answered by response
CallFetchWikipediaPages ==
    /\ call.op = "none"
    /\ \E response \in Responses :
          LET r == fetch_wikipedia_pages(response)
          IN  call' = [NoCall EXCEPT !.op = "fetch_wikipedia_pages",
                                     !.adapter = response.kind,
                                     !.arg = response.pages,
                                     !.raised = r.raised, !.exc = r.exc,
                                     !.out = r.value, !.fs_before = fs]
    /\ UNCHANGED <<argv, env, exit_code, job_name, dry_run, pc, returned, status, attempts, requests,
                   output, metadata, export, filter_trace, fs, clock>>

ServiceNext ==
    \/ CallValidateWikipediaPages
    \/ CallValidateGenericData
    \/ CallFilterData
    \/ CallSaveData
    \/ CallExportWithMetadata
    \/ CallLoadData
    \/ CallDeduplicateData
    \/ CallCleanTextData
    \/ CallFetchWikipediaPages

ServiceSpec == ServiceInit /\ [][ServiceNext]_vars

(***************************************************************************)
(* Properties of the storage gateway called on its own.                    *)
(***************************************************************************)
DestinationPath == base_path \o Destination

\* C11: save_data of the CSV adapter and of the JSON adapter, and
\* export_with_metadata with or without metadata, called with a table
\* without rows return success = False without raising and leave the
\* destination as it was: no file appears there and a file that was there
\* keeps its content.
C11_EmptyTableNotSaved ==
    (call.op \in {"save_data", "export_with_metadata"} /\ NRows(call.df) = 0) =>
        /\ ~call.raised
        /\ ~call.result.success
        /\ fs.files = call.fs_before.files

\* an export with metadata of a table without rows onto an existing file
C11_Witness ==
    /\ call.op = "export_with_metadata"
    /\ NRows(call.df) = 0
    /\ Len(call.df.columns) > 0
    /\ call.arg # <<>>
    /\ DestinationPath \in DOMAIN call.fs_before.files
    /\ fs.files[DestinationPath] = OldFile

\* the column export_with_metadata names after a metadata key
MetaColumn(key) == "meta_" \o key

\* C12: export_with_metadata with metadata hands to save_data the table
\* with one more column meta_<key> per entry, holding the entry's value in
\* every row and the table's own cells elsewhere, leaves the caller's table
\* as it was and, when the save succeeds, names every key in the outcome
\* message; without metadata it hands over the table with its own columns
\* and the message has no metadata summary.
C12_MetadataColumnsOnACopy ==
    call.op = "export_with_metadata" =>
        /\ call.df_after = call.df
        /\ NRows(call.out) = NRows(call.df)
        /\ IF call.arg # <<>>
           THEN /\ call.out.columns =
                      call.df.columns
                          \o [k \in 1..Len(call.arg) |-> MetaColumn(call.arg[k][1])]
                /\ \A i \in 1..NRows(call.df) :
                      /\ \A c \in ColumnSet(call.df) :
                            call.out.rows[i][c] = call.df.rows[i][c]
                      /\ \A k \in 1..Len(call.arg) :
                            call.out.rows[i][MetaColumn(call.arg[k][1])] = call.arg[k][2]
                /\ call.result.success =>
                      /\ Contains(call.result.message, "with metadata")
                      /\ \A k \in 1..Len(call.arg) :
                            Contains(call.result.message, call.arg[k][1])
           ELSE /\ call.out.columns = call.df.columns
                /\ call.out = call.df
                /\ ~Contains(call.result.message, "with metadata")

\* a successful export of two rows with two metadata entries
C12_Witness ==
    /\ call.op = "export_with_metadata"
    /\ Len(call.arg) = 2
    /\ NRows(call.df) = 2
    /\ call.result.success
    /\ DestinationPath \in DOMAIN fs.files

\* a cell as a value, whatever type holds it: the number, the truth value
\* or the text
ValueOf(v) ==
    CASE v.t \in {"int", "float"} -> <<"number", v.n>>
      [] v.t = "bool" -> <<"bool", v.n>>
      [] v.t = "str" /\ IsIntText(v.s) -> <<"number", IntOfText(v.s)>>
      [] OTHER -> <<"text", v.s>>

\* two cells hold the same value up to type coercion
SameValue(a, b) ==
    IF IsNull(a) \/ IsNull(b) THEN IsNull(a) /\ IsNull(b)
    ELSE ValueOf(a) = ValueOf(b)

\* C13: load_data after a successful save_data on the same adapter returns
\* a table with as many rows as the saved one, the same column names and,
\* up to type coercion, the same value in every cell.
C13_RoundTrip ==
    call.op = "load_data" =>
        /\ ~call.raised
        /\ NRows(call.out) = NRows(call.df)
        /\ ColumnSet(call.out) = ColumnSet(call.df)
        /\ \A i \in 1..NRows(call.df) : \A c \in ColumnSet(call.df) :
              SameValue(call.df.rows[i][c], call.out.rows[i][c])

(***************************************************************************)
(* Properties of the validation service called on its own.                 *)
(***************************************************************************)
\* the page schema as the claim words it: exactly the columns pageid and
\* title, every pageid an integer of at least 1 or the text of one, every
\* title a non-empty string
SatisfiesPageSchema(df) ==
    /\ ColumnSet(df) = {"pageid", "title"}
    /\ \A i \in 1..NRows(df) :
          LET p == df.rows[i]["pageid"]
              t == df.rows[i]["title"]
          IN  /\ \/ p.t = "int" /\ p.n >= 1
                 \/ p.t = "str" /\ IsDigits(p.s) /\ ParseInt(p.s) >= 1
              /\ t.t = "str" /\ t.s # <<>>

\* C14: on a table that satisfies the page schema validate_wikipedia_pages
\* returns success = True and record_count = the number of rows.
C14_ValidTableAccepted ==
    (call.op = "validate_wikipedia_pages" /\ SatisfiesPageSchema(call.df)) =>
        /\ call.result.success
        /\ call.result.record_count = NRows(call.df)

\* two valid rows, one with its pageid as text and one with pageid 1
C14_Witness ==
    /\ call.op = "validate_wikipedia_pages"
    /\ SatisfiesPageSchema(call.df)
    /\ NRows(call.df) = 2
    /\ \E i \in 1..2 : call.df.rows[i]["pageid"].t = "str"
    /\ \E i \in 1..2 : call.df.rows[i]["pageid"] = IntV(1)
    /\ call.result.success

\* some entry of an errors list has the text in it
ErrorsName(errors, text) == \E k \in 1..Len(errors) : Contains(errors[k], text)

\* C15: on a table that lacks a column of the schema validate_wikipedia_pages
\* returns success = False, record_count = the number of rows and an errors
\* list that names every column the table lacks.
C15_MissingColumnNamed ==
    (call.op = "validate_wikipedia_pages" /\ MissingSchemaColumns(call.df) # <<>>) =>
        /\ ~call.raised
        /\ ~call.result.success
        /\ call.result.record_count = NRows(call.df)
        /\ call.result.errors # <<>>
        /\ \A k \in 1..Len(MissingSchemaColumns(call.df)) :
              ErrorsName(call.result.errors, MissingSchemaColumns(call.df)[k])

\* the fields of a table with the columns of the schema that fail the
\* schema in some row
ViolatedFields(df) ==
    {c \in {"pageid", "title"} :
        \E i \in 1..NRows(df) :
            IF c = "pageid" THEN ~PageIdOk(df.rows[i][c]) ELSE ~TitleOk(df.rows[i][c])}

\* C16: on a table with the columns of the schema, the errors
\* validate_wikipedia_pages reports name every field that fails the schema
\* in some row, not only the first one met.
C16_ViolationsAggregated ==
    (call.op = "validate_wikipedia_pages" /\ ColumnSet(call.df) = {"pageid", "title"}) =>
        \A c \in ViolatedFields(call.df) : ErrorsName(call.result.errors, c)

\* some required column holds a null value in some row
NullInRequired(df, required_columns) ==
    \E k \in 1..Len(required_columns) : \E i \in 1..NRows(df) :
        required_columns[k] \in ColumnSet(df) /\ IsNull(df.rows[i][required_columns[k]])

\* C17: validate_generic_data returns success = True exactly when the table
\* is not empty, has every required column and holds no null value in a
\* required column; an empty table fails with record_count 0 and the report
\* "No data to validate"; for a table that is not empty record_count is the
\* number of rows.
C17_GenericValidation ==
    call.op = "validate_generic_data" =>
        /\ call.result.success <=>
              /\ ~IsEmpty(call.df)
              /\ \A k \in 1..Len(call.arg) : call.arg[k] \in ColumnSet(call.df)
              /\ ~NullInRequired(call.df, call.arg)
        /\ IsEmpty(call.df) =>
              /\ ~call.result.success
              /\ call.result.record_count = 0
              /\ \E k \in 1..Len(call.result.errors) :
                    Contains(Lower(Chars(call.result.errors[k])),
                             Chars("no data to validate"))
        /\ ~IsEmpty(call.df) => call.result.record_count = NRows(call.df)

\* two rows with every required column and no null value in them
C17_Witness ==
    /\ call.op = "validate_generic_data"
    /\ call.arg = <<"title", "ns">>
    /\ NRows(call.df) = 2
    /\ call.result.success

\* C18: on a table that is not empty and lacks a required column
\* validate_generic_data returns success = False, a message that contains
\* "Missing columns" and a non-empty errors list.
C18_MissingColumnsMessage ==
    ( /\ call.op = "validate_generic_data"
      /\ ~IsEmpty(call.df)
      /\ \E k \in 1..Len(call.arg) : call.arg[k] \notin ColumnSet(call.df) ) =>
        /\ ~call.result.success
        /\ Contains(call.result.message, "Missing columns")
        /\ call.result.errors # <<>>

(***************************************************************************)
(* Properties of filter_data called on its own.                            *)
(***************************************************************************)
\* the row meets every criterion that names a column of the table
MeetsAll(df, row, filters) ==
    \A k \in 1..Len(filters) :
        filters[k][1] \in ColumnSet(df) => CriterionHolds(row[filters[k][1]], filters[k][2])

\* the k-th smallest member of a set of indices
Nth(S, k) == CHOOSE i \in S : Cardinality({j \in S : j <= i}) = k

\* C19: filter_data returns the columns of the table and exactly the rows
\* that meet every criterion, in their order, and leaves the caller's table
\* as it was; "contains:List of" on the four example titles returns the
\* first and the third row.
C19_FilterIsConjunction ==
    call.op = "filter_data" =>
        LET met == {i \in 1..NRows(call.df) : MeetsAll(call.df, call.df.rows[i], call.arg)}
        IN  /\ call.out.columns = call.df.columns
            /\ NRows(call.out) = Cardinality(met)
            /\ \A k \in 1..NRows(call.out) : call.out.rows[k] = call.df.rows[Nth(met, k)]
            /\ call.df_after = call.df
            /\ ( /\ call.df = ExampleTable
                 /\ call.arg = << <<"title", StrV(Chars("contains:List of"))>> >> ) =>
                  call.out.rows = <<ExampleTable.rows[1], ExampleTable.rows[3]>>

\* two criteria of which a row meets one only, next to a row that meets both
C19_Witness ==
    /\ call.op = "filter_data"
    /\ Len(call.arg) = 2
    /\ NRows(call.df) = 2
    /\ NRows(call.out) = 1
    /\ call.out.rows[1] = call.df.rows[2]
    /\ \A k \in 1..2 : call.arg[k][1] \in ColumnSet(call.df)
    /\ \E k \in 1..2 : CriterionHolds(call.df.rows[1][call.arg[k][1]], call.arg[k][2])

\* the row is among the rows filter_data returned
Retained(row) == \E j \in 1..NRows(call.out) : call.out.rows[j] = row

\* C20: under a single criterion on a column of the table, a row whose text
\* holds the term of a "contains:" criterion, or starts with the term of a
\* "startswith:" criterion, in any letter case is retained, and a row
\* retained under a plain value holds exactly that value.
C20_CaseSensitivity ==
    ( /\ call.op = "filter_data"
      /\ Len(call.arg) = 1
      /\ call.arg[1][1] \in ColumnSet(call.df) ) =>
        LET column == call.arg[1][1]
            value == call.arg[1][2]
        IN  \A i \in 1..NRows(call.df) :
              LET cell == call.df.rows[i][column]
                  text == Lower(AsStr(cell))
              IN  IF value.t = "str" /\ StartsWith(value.s, ContainsPrefix)
                  THEN (~IsNull(cell) /\ Contains(text,
                            Lower(SubSeq(value.s, Len(ContainsPrefix) + 1, Len(value.s)))))
                           => Retained(call.df.rows[i])
                  ELSE IF value.t = "str" /\ StartsWith(value.s, StartsWithPrefix)
                  THEN (~IsNull(cell) /\ StartsWith(text,
                            Lower(SubSeq(value.s, Len(StartsWithPrefix) + 1, Len(value.s)))))
                           => Retained(call.df.rows[i])
                  ELSE Retained(call.df.rows[i]) => cell = value

(***************************************************************************)
(* Properties of the processing operations called on their own.            *)
(***************************************************************************)
\* the key of a row of the table a call was given, under the key columns it
\* was given
KeyOf(row) ==
    IF call.arg = <<>> THEN row ELSE [k \in 1..Len(call.arg) |-> row[call.arg[k]]]

\* the positions of the rows that are the first of their key
FirstOccurrences ==
    {i \in 1..NRows(call.df) :
        \A j \in 1..(i - 1) : KeyOf(call.df.rows[j]) # KeyOf(call.df.rows[i])}

\* C21: deduplicate_data(T, key_columns) returns no more rows than T has,
\* and exactly the rows of T that are the first of their key, in T's order,
\* so no two returned rows have the same key; with key_columns omitted the
\* key is the whole row.  T itself is left as it was.
C21_Deduplicate ==
    (call.op = "deduplicate_data" /\ ~call.raised) =>
        /\ NRows(call.out) <= NRows(call.df)
        /\ NRows(call.out) = Cardinality(FirstOccurrences)
        /\ \A k \in 1..NRows(call.out) :
              call.out.rows[k] = call.df.rows[Nth(FirstOccurrences, k)]
        /\ \A a, b \in 1..NRows(call.out) :
              a # b => KeyOf(call.out.rows[a]) # KeyOf(call.out.rows[b])
        /\ call.out.columns = call.df.columns
        /\ call.df_after = call.df

\* two different rows with the same key: the first is the one kept
C21_Witness ==
    /\ call.op = "deduplicate_data"
    /\ ~call.raised
    /\ call.arg = <<"ns">>
    /\ NRows(call.df) = 2
    /\ call.df.rows[1] # call.df.rows[2]
    /\ NRows(call.out) = 1
    /\ call.out.rows[1] = call.df.rows[1]

\* the words of a text: its maximal runs of characters that are not
\* whitespace
RECURSIVE Words(_)
Words(s) ==
    IF s = <<>> THEN <<>>
    ELSE IF Head(s) \in Whitespace THEN Words(Tail(s))
    ELSE LET stops == {i \in 1..Len(s) : s[i] \in Whitespace}
             n == IF stops = {} THEN Len(s) + 1
                  ELSE CHOOSE i \in stops : \A j \in stops : i <= j
         IN  <<SubSeq(s, 1, n - 1)>> \o Words(SubSeq(s, n, Len(s)))

\* the words joined by one space
RECURSIVE JoinWords(_)
JoinWords(ws) ==
    IF ws = <<>> THEN <<>>
    ELSE IF Len(ws) = 1 THEN ws[1]
    ELSE ws[1] \o <<" ">> \o JoinWords(Tail(ws))

\* the text form of a value without its leading and trailing whitespace and
\* with every run of whitespace inside it as one space
Normalised(v) == JoinWords(Words(AsStr(v)))

NamedColumns == {call.arg[k] : k \in 1..Len(call.arg)}

\* C22: clean_text_data returns a table of the same columns and the same
\* number of rows in the same order, in which a cell of a named column is
\* the original value trimmed and with its whitespace runs collapsed, or a
\* null when that text is '', 'nan' or 'None', and every other cell is the
\* original one; the table it was given is left as it was.
C22_CleanText ==
    call.op = "clean_text_data" =>
        /\ call.out.columns = call.df.columns
        /\ NRows(call.out) = NRows(call.df)
        /\ \A i \in 1..NRows(call.df) :
              \A c \in ColumnSet(call.df) :
                  IF c \in NamedColumns
                  THEN IF Normalised(call.df.rows[i][c])
                            \in {<<>>, Chars("nan"), Chars("None")}
                       THEN IsNull(call.out.rows[i][c])
                       ELSE call.out.rows[i][c] = StrV(Normalised(call.df.rows[i][c]))
                  ELSE call.out.rows[i][c] = call.df.rows[i][c]
        /\ call.df_after = call.df

\* a title with whitespace around and inside it, next to a title that is
\* the text 'None' followed by a space
C22_Witness ==
    /\ call.op = "clean_text_data"
    /\ call.arg = <<"title">>
    /\ call.df.columns = <<"pageid", "title">>
    /\ NRows(call.df) = 2
    /\ call.df.rows[1]["title"] = StrV(<<" ","D","u"," "," ","p","\t">>)
    /\ call.out.rows[1]["title"] = StrV(Chars("Du p"))
    /\ call.df.rows[2]["title"] = StrV(Chars("None "))
    /\ IsNull(call.out.rows[2]["title"])
    /\ call.out.rows[2]["pageid"] = IntV(4)

OnPresentColumn(criterion) == criterion[1] \in ColumnSet(call.df)

\* C29: filter_data called with a criterion on a column the table lacks
\* raises nothing and returns what it returns for the criteria on the
\* columns the table has; when no criterion is on such a column it returns
\* every row.
C29_MissingColumnSkipped ==
    (call.op = "filter_data"
        /\ \E k \in 1..Len(call.arg) : ~OnPresentColumn(call.arg[k])) =>
        /\ ~call.raised
        /\ call.out = filter_data(call.df, SelectSeq(call.arg, OnPresentColumn))
        /\ SelectSeq(call.arg, OnPresentColumn) = <<>> => call.out = call.df

\* of the four example titles, the criterion on "name" removes none and
\* "contains:a" keeps two
C29_Witness ==
    /\ call.op = "filter_data"
    /\ call.df = ExampleTable
    /\ Len(call.arg) = 2
    /\ call.arg[1][1] = "name"
    /\ NRows(call.out) = 2

\* C30: the outcome returned by validate_wikipedia_pages,
\* validate_generic_data, save_data of either adapter and
\* export_with_metadata over the CSV adapter has an empty errors list when
\* success is true and at least one error when success is false.
C30_OutcomeErrors ==
    (call.op \in {"validate_wikipedia_pages", "validate_generic_data",
                  "save_data", "export_with_metadata"} /\ ~call.raised) =>
        /\ call.result.success => call.result.errors = <<>>
        /\ ~call.result.success => Len(call.result.errors) >= 1

\* an export of a table with rows whose write failed
C30_Witness ==
    /\ call.op = "export_with_metadata"
    /\ NRows(call.df) > 0
    /\ ~call.raised
    /\ ~call.result.success
    /\ Len(call.result.errors) = 1

(***************************************************************************)
(* Properties of the stages run by a job.                                  *)
(***************************************************************************)
\* C26: every row of the table clean_and_process_pages returns, its input
\* having passed validate_pages, has a title that is neither null nor
\* empty.
C26_TitlesStayNonNull ==
    status["clean_and_process_pages"] = "SUCCEEDED" =>
        \A i \in 1..NRows(output["clean_and_process_pages"]) :
            LET title == output["clean_and_process_pages"].rows[i]["title"]
            IN  ~IsNull(title) /\ AsStr(title) # <<>>

\* the file a store stage that called the gateway made it write, or the
\* headers-only file of the placeholder branch
WrittenBy(s) ==
    IF export[s].called
    THEN CsvContent(export[s].saved)
    ELSE CsvContent(DataFrame(PlaceholderColumns, <<>>))

\* C27: the path a store stage that succeeded records as output_path in its
\* metadata (the path it returns) is that of the file the stage wrote, so
\* both branches of store_filtered_pages_to_csv write the file at the
\* recorded path.
C27_RecordedPathIsWrittenFile ==
    \A s \in StoreStages :
        status[s] = "SUCCEEDED" =>
            /\ metadata[s].output_path \in DOMAIN fs.files
            /\ fs.files[metadata[s].output_path] = WrittenBy(s)

\* C28: when the rows filter_pages_by_criteria returns come from the
\* truncation, the number in the tag 'first k records (fallback)' is the
\* number of rows returned, which is also the row_count of the metadata.
C28_TagCountsReturnedRows ==
    (FilterDone /\ filter_trace.tier = 2) =>
        /\ FilterTag = FallbackTag(NRows(FilterOutput))
        /\ metadata["filter_pages_by_criteria"].row_count = NRows(FilterOutput)

(***************************************************************************)
(* Properties of the command-line process.                                 *)
(***************************************************************************)
\* C24: the process exits with 0 when the job it was asked to run
\* succeeded, and with 1 when the job failed, when the job name is unknown,
\* and when the arguments are in error, a command line that names no
\* action included.
C24_ExitCodes ==
    pc = "done" =>
        /\ (argv = "job" /\ returned = "true") => exit_code = 0
        /\ (argv = "job" /\ returned = "false") => exit_code = 1
        /\ argv \in {"bad_option", "no_args", "no_action"} => exit_code = 1

(***************************************************************************)
(* A job run in a process whose environment changes while it runs.         *)
(***************************************************************************)
\* the environment with each of the two variables unset or set as the
\* tests set it
Environments ==
    {[WIKI_API_URL |-> u, OUTPUT_PATH |-> p] :
        u \in {<<>>, <<"https://test.api.com/api.php">>},
        p \in {<<>>, << <<"data", "test_pages.csv">> >>}}

\* what the source answers with: two valid pages, or no answer in time
ConfigResponses ==
    { [kind |-> "ok",
       pages |-> << [pageid |-> IntV(1), title |-> StrV(Chars("Wikipedia:A"))],
                    [pageid |-> IntV(3), title |-> StrV(Chars("List"))] >>],
      [kind |-> "timeout", pages |-> <<>>] }

ConfigInit ==
    /\ argv = "job"
    /\ job_name = "full_pipeline_job"
    /\ dry_run = FALSE
    /\ exit_code = NoExit
    /\ \E e \in Environments : env = [start |-> e, now |-> e]
    /\ pc = "lookup"
    /\ returned = "none"
    /\ status = [s \in Stages |-> "PENDING"]
    /\ attempts = [s \in Stages |-> 0]
    /\ requests = 0
    /\ output = [s \in Stages |-> NoOutput]
    /\ metadata = [s \in Stages |-> NoMetadata]
    /\ export = [s \in StoreStages |-> NoExport]
    /\ filter_trace = [applied |-> <<>>, tier |-> 0 - 1]
    /\ fs \in {[dirs |-> {}, files |-> <<>>], [dirs |-> {base_path}, files |-> <<>>]}
    /\ clock = 0
    /\ call = NoCall

\* os.environ is assigned to while the job runs
SetEnvironment ==
    /\ pc = "materialize"
    /\ \E e \in Environments \ {env.now} : env' = [env EXCEPT !.now = e]
    /\ UNCHANGED <<argv, exit_code, call, job_name, dry_run, pc, returned, status,
                   attempts, requests, output, metadata, export, filter_trace, fs,
                   clock>>

ConfigNext ==
    \/ BeginMaterialize
    \/ \E s \in Stages : StartStage(s)
    \/ RunFetchAnswered(ConfigResponses)
    \/ RunValidate
    \/ RunClean
    \/ RunStorePages
    \/ RunFilter
    \/ RunStoreFiltered
    \/ MaterializeRaises
    \/ MaterializeReturns
    \/ SetEnvironment

ConfigSpec == ConfigInit /\ [][ConfigNext]_vars

\* C25: the source URL the fetch stage uses and the output path the store
\* stage uses are the values the environment had when the process started,
\* whatever WIKI_API_URL and OUTPUT_PATH were set to afterwards.
C25_ConfigurationReadOnce ==
    /\ metadata["fetch_raw_pages"].recorded =>
          metadata["fetch_raw_pages"].api_url
              = getenv(env.start, "WIKI_API_URL", "https://en.wikipedia.org/w/api.php")
    /\ metadata["store_pages_to_csv"].recorded =>
          metadata["store_pages_to_csv"].output_path
              = getenv(env.start, "OUTPUT_PATH", <<"data", "pages.csv">>)

=============================================================================
